---- MODULE Spec2Model ----
(***************************************************************************)
(* Interview bot: the per-candidate interview state machine of             *)
(* handlers.py (start_handler, handle_message and the three state          *)
(* handlers), the candidates / responses tables of database.py, the        *)
(* question sampling of questions.py and the decision policy of            *)
(* scoring.py / utils.py.                                                  *)
(*                                                                         *)
(* bot.py builds the Application without concurrent_updates, so updates    *)
(* are dispatched one at a time: one step of Spec is one whole handler     *)
(* invocation, every SQL statement and every reply of it included.  A      *)
(* reply_text call may raise (a transport error); which call of an         *)
(* invocation raises is an input of the step.                              *)
(*                                                                         *)
(* Not modelled: last_time / timestamps (they only feed response_time,     *)
(* which is an input of analyze_response here), username, and the          *)
(* response_text / response_time columns.                                  *)
(***************************************************************************)
EXTENDS Integers, Sequences, FiniteSets, Bags, TLC

\* ------------------------------------------------------------ constants

\* questions.py:79
QUESTIONS_PER_INTERVIEW == 5

\* handlers.py:435, 494: max_possible_score = QUESTIONS_PER_INTERVIEW * 10
max_possible_score == QUESTIONS_PER_INTERVIEW * 10

\* Telegram user ids; bot.py:44 reads ADMIN_IDS from the environment.
Users == {1, 2}
ADMIN_IDS == {1}

\* SQL NULL of a TEXT column (name, decision, feedback).
NULL == "NULL"
\* SQL NULL of the selected_questions column, whose values are JSON texts
\* (sequences of tokens); also Python's None / empty list of get_user_questions.
NoText == << >>

\* questions.py:9-76: the pool holds pairwise distinct strings; the model keeps
\* six of them.
QUESTION_POOL == {"Q1", "Q2", "Q3", "Q4", "Q5", "Q6"}

\* ------------------------------------------------------------ bounds

\* An admin may keep answering after completion, which raises question_index
\* without limit; text messages are handled while question_index < MaxIndex.
MaxIndex == 7

\* The number of users with a row in the runs with interleaved handlers.
MaxCandidates == 1

\* ------------------------------------------------------------ inputs

\* Inbound texts, as sequences of characters.
LongText == [i \in 1..21 |-> "x"]
Texts == { <<"A">>, <<"A", "l">>, <<" ", "A", "l", " ">>, <<"A", ".", "l">>, LongText }

\* Results of random.sample(QUESTION_POOL, 5) the model draws from.
SampledQuestions == { <<"Q1", "Q2", "Q3", "Q4", "Q5">>, <<"Q6", "Q5", "Q4", "Q3", "Q2">> }

\* net[k]: the k-th reply_text call of one handler invocation returns normally.
Nets == [1..3 -> BOOLEAN]

\* ------------------------------------------------------------ pure functions

\* handlers.py:19-38: user_id in bot.ADMIN_IDS.
\* (variant: everyone is an admin)
IsAdminForAll(user_id) == TRUE

is_admin(user_id) == user_id \in ADMIN_IDS

Whitespace == {" ", "\n", "\t"}

\* str.strip(): leading and trailing whitespace removed.
RECURSIVE lstrip(_)
lstrip(s) == IF s # << >> /\ Head(s) \in Whitespace THEN lstrip(Tail(s)) ELSE s

RECURSIVE rstrip(_)
rstrip(s) ==
    IF s # << >> /\ s[Len(s)] \in Whitespace THEN rstrip(SubSeq(s, 1, Len(s) - 1)) ELSE s

strip(text) == rstrip(lstrip(text))

\* The characters of a text as one string.
RECURSIVE Join(_)
Join(s) == IF s = << >> THEN "" ELSE Head(s) \o Join(Tail(s))

\* handlers.py:236-246: the three validations of _handle_name_input, as the reply
\* each sends ("" when the name is accepted).
MSG_NAME_SHORT == "Please provide a valid first name (at least 2 characters)."
MSG_NAME_LONG == "Please provide just your first name (not a long message)."
MSG_NAME_SENTENCE == "Please provide just your first name (not a sentence or paragraph)."

\* (variant: the test for "." and newline is left out)
NameRejectionByLength(applicant_name) ==
    IF Len(applicant_name) < 2 THEN MSG_NAME_SHORT
    ELSE IF Len(applicant_name) > 20 THEN MSG_NAME_LONG
    ELSE ""

NameRejection(applicant_name) ==
    IF Len(applicant_name) < 2 THEN MSG_NAME_SHORT
    ELSE IF Len(applicant_name) > 20 THEN MSG_NAME_LONG
    ELSE IF \E i \in 1..Len(applicant_name) : applicant_name[i] \in {".", "\n"}
         THEN MSG_NAME_SENTENCE
    ELSE ""

\* questions.py:82-94: random.sample(QUESTION_POOL, QUESTIONS_PER_INTERVIEW): any
\* sequence of QUESTIONS_PER_INTERVIEW pool entries at distinct positions.
IsSample(qs) ==
    /\ Len(qs) = QUESTIONS_PER_INTERVIEW
    /\ \A i \in 1..Len(qs) : qs[i] \in QUESTION_POOL
    /\ \A i, j \in 1..Len(qs) : i # j => qs[i] # qs[j]

get_random_questions == { qs \in SampledQuestions : IsSample(qs) }

\* json.dumps / json.loads of a list of strings (handlers.py:265, 51).
json_dumps(list) == <<"[">> \o list \o <<"]">>

IsJson(s) == Len(s) >= 2 /\ s[1] = "[" /\ s[Len(s)] = "]"

json_loads(s) == SubSeq(s, 2, Len(s) - 1)

\* scoring.py:310-328
\* (variants: approval above 17 only; no, or less, ai_score tolerance for BORDERLINE)
DecisionStrictApproval(score, ai_score) ==
    IF score > 17 /\ ai_score <= 8 THEN "APPROVED"
    ELSE IF score >= 13 /\ ai_score <= 10 THEN "BORDERLINE"
    ELSE "NOT ELIGIBLE"

DecisionNoTolerance(score, ai_score) ==
    IF score >= 17 /\ ai_score <= 8 THEN "APPROVED"
    ELSE IF score >= 13 /\ ai_score <= 8 THEN "BORDERLINE"
    ELSE "NOT ELIGIBLE"

DecisionLessTolerance(score, ai_score) ==
    IF score >= 17 /\ ai_score <= 8 THEN "APPROVED"
    ELSE IF score >= 13 /\ ai_score <= 9 THEN "BORDERLINE"
    ELSE "NOT ELIGIBLE"

determine_decision(score, ai_score) ==
    IF score >= 17 /\ ai_score <= 8 THEN "APPROVED"
    ELSE IF score >= 13 /\ ai_score <= 10 THEN "BORDERLINE"
    ELSE "NOT ELIGIBLE"

\* utils.py:11-41: one fixed text per decision.
FB_APPROVED == "Thank you for completing the interview! ... Welcome to the team! We're excited to work with you."
FB_BORDERLINE == "Thank you for completing the interview! ... we'd like to keep your application on file for future opportunities. ..."
FB_NOT_ELIGIBLE == "Thank you for taking the time to complete our interview process. ... we've decided to move forward with other candidates at this time. ..."

\* (variant: the text ends with the score)
FeedbackWithScore(score, ai_score, decision) ==
    (IF decision = "APPROVED" THEN FB_APPROVED
     ELSE IF decision = "BORDERLINE" THEN FB_BORDERLINE
     ELSE FB_NOT_ELIGIBLE) \o " Score: " \o ToString(score)

generate_feedback(score, ai_score, decision) ==
    IF decision = "APPROVED" THEN FB_APPROVED
    ELSE IF decision = "BORDERLINE" THEN FB_BORDERLINE
    ELSE FB_NOT_ELIGIBLE

\* ------------------------------------------------------------ scoring.py

\* Python strings are TLA+ strings here; s[i:j], len and + are SubSeq, Len and \o.
char(s, i) == SubSeq(s, i, i)

\* str.lower(), on the letters A-Z.
UPPERCASE == "ABCDEFGHIJKLMNOPQRSTUVWXYZ"
LOWERCASE == "abcdefghijklmnopqrstuvwxyz"

lower_char(ch) ==
    IF \E i \in 1..26 : char(UPPERCASE, i) = ch
    THEN char(LOWERCASE, CHOOSE i \in 1..26 : char(UPPERCASE, i) = ch)
    ELSE ch

RECURSIVE str_lower(_)
str_lower(s) ==
    IF Len(s) <= 1 THEN lower_char(s)
    ELSE LET half == Len(s) \div 2
         IN  str_lower(SubSeq(s, 1, half)) \o str_lower(SubSeq(s, half + 1, Len(s)))

\* `phrase in lower`
Contains(s, phrase) ==
    \E i \in 1..(Len(s) - Len(phrase) + 1) : SubSeq(s, i, i + Len(phrase) - 1) = phrase

\* any(phrase in lower for phrase in phrases)
any_in(phrases, s) == \E phrase \in phrases : Contains(s, phrase)

\* sum(1 for word in words if word in lower), the words being pairwise distinct
how_many_in(words, s) == Cardinality({ word \in words : Contains(s, word) })

\* str.count(sub), for a sub that cannot overlap itself (",", ".", "sorry")
str_count(s, sub) ==
    Cardinality({ i \in 1..(Len(s) - Len(sub) + 1) : SubSeq(s, i, i + Len(sub) - 1) = sub })

\* len(s.split()): the number of maximal runs of characters that are not whitespace
len_split(s) ==
    Cardinality({ i \in 1..Len(s) :
                    /\ char(s, i) \notin Whitespace
                    /\ (i = 1 \/ char(s, i - 1) \in Whitespace) })

\* The phrase lists of the scorers (scoring.py:68-70, 100-104, 116, 148-157, 191, 212,
\* 227-237).
confident_phrases ==
    {"i want", "i'd love", "i can", "when you", "if you", "for me", "i'd like"}

needy_phrases ==
    {"please", "i need", "i hope", "maybe", "i guess", "i think so"}

submissive_phrases ==
    {"sorry", "apologies", "i apologize", "my fault", "i'm so sorry"}

chosen_phrases ==
    {"for you", "special", "only you", "just for you", "you're different", "you're unique"}

curiosity_phrases ==
    {"imagine", "what if", "think about", "picture", "later", "when", "someday"}

personal_phrases ==
    {"i love", "i'm into", "i'm drawn to", "you make me", "you're", "i feel", "i appreciate"}

connection_phrases ==
    {"miss you", "think about you", "remember", "wish", "understand", "get you", "hear you"}

completion_phrases ==
    {"i love you", "i'm yours", "forever", "always", "promise"}

sales_pressure_words ==
    {"buy", "pay", "tip now", "send money", "purchase", "order"}

desire_keywords ==
    {"spoil", "treat", "unlock", "exclusive", "special", "premium", "vip"}

future_ppv_keywords ==
    {"later", "next time", "when you", "if you want", "custom", "personal", "whenever you're ready"}

subtle_sales ==
    {"tip", "appreciate", "support", "help me", "for me", "when you're feeling generous"}

pressure_phrases ==
    {"buy now", "pay me", "send money", "give me", "i need money", "hurry", "limited time"}

sales_words ==
    {"buy", "pay", "tip", "purchase", "order", "send"}

objection_words ==
    {"free", "expensive", "why", "but", "can't afford", "no money", "cheaper"}

momentum_words ==
    {"yes", "yeah", "sure", "absolutely", "definitely", "of course"}

contractions ==
    {"i'm", "i've", "don't", "can't", "won't", "it's", "that's", "you're", "we're"}

casual_words ==
    {"yeah", "yep", "hmm", "mm", "haha", "lol", "omg", "tbh", "fr"}

salesy_phrases ==
    {"limited time", "act now", "don't miss out", "buy today", "hurry up"}

sales_push_words ==
    {"buy", "pay", "tip", "purchase", "order", "send", "money"}

\* scoring.py:64-88
score_fan_control(text, lower) ==
    LET has_confidence == any_in(confident_phrases, lower)
        has_needy == any_in(needy_phrases, lower)
        has_submissive == any_in(submissive_phrases, lower)
        control_score ==
            IF has_confidence /\ ~has_needy /\ ~has_submissive THEN 2
            ELSE IF has_confidence \/ (~has_needy /\ ~has_submissive) THEN 1
            ELSE IF ~has_needy THEN 1
            ELSE 0
    IN  IF str_count(str_lower(text), "sorry") >= 3
        THEN (IF control_score - 1 > 0 THEN control_score - 1 ELSE 0)
        ELSE control_score

\* scoring.py:91-135
score_emotional_investment(lower) ==
    LET has_chosen == any_in(chosen_phrases, lower)
        has_curiosity == any_in(curiosity_phrases, lower)
        has_personal == any_in(personal_phrases, lower)
        has_connection == any_in(connection_phrases, lower)
        over_giving ==
            Contains(lower, "free")
                /\ (Contains(lower, "pic") \/ Contains(lower, "photo") \/ Contains(lower, "video"))
        is_overpushing == how_many_in(sales_pressure_words, lower) >= 2
        emotional_score ==
            IF /\ has_chosen \/ has_curiosity
               /\ has_personal \/ has_connection
               /\ ~any_in(completion_phrases, lower)
            THEN 2
            ELSE IF /\ has_chosen \/ has_curiosity \/ has_personal \/ has_connection
                    /\ ~over_giving
                    /\ ~is_overpushing
            THEN 1
            ELSE IF (has_personal \/ has_connection) /\ ~over_giving THEN 1
            ELSE 0
        after_over_giving == IF over_giving THEN 0 ELSE emotional_score
    IN  IF is_overpushing
        THEN (IF after_over_giving - 1 > 0 THEN after_over_giving - 1 ELSE 0)
        ELSE after_over_giving

\* scoring.py:138-184
score_monetization(lower) ==
    LET sales_word_count == how_many_in(sales_words, lower)
        is_overpushing == sales_word_count >= 4
        begging == any_in(pressure_phrases, lower)
        has_desire == any_in(desire_keywords, lower)
        has_future_setup == any_in(future_ppv_keywords, lower)
        has_subtle == any_in(subtle_sales, lower)
        monetization_score ==
            IF (has_desire \/ has_subtle) /\ has_future_setup /\ ~begging /\ ~is_overpushing
            THEN 2
            ELSE IF (has_desire \/ has_subtle \/ has_future_setup) /\ ~begging /\ ~is_overpushing
            THEN 1
            ELSE IF (has_desire \/ has_subtle) /\ ~begging THEN 1
            ELSE 0
    IN  IF begging \/ is_overpushing THEN 0 ELSE monetization_score

\* scoring.py:187-216
\* (variant: no credit for keeping the conversation going)
RebuttalWithoutMomentum(lower, word_count) == 0

score_rebuttal(lower, word_count) ==
    LET has_objection_context == any_in(objection_words, lower)
        reframing_phrases == {"i understand", "see it as", "think of it as", "it's more like", "you're worth"}
        calm_phrases == {"no worries", "totally get it", "that's okay", "i hear you"}
        argument_phrases == {"you're wrong", "that's not true", "no you", "you should"}
        has_reframe == any_in(reframing_phrases, lower)
        has_calm == any_in(calm_phrases, lower)
        has_argument == any_in(argument_phrases, lower)
    IN  IF has_objection_context
        THEN IF has_argument \/ Contains(lower, "defend") THEN 0
             ELSE IF (has_reframe \/ has_calm) /\ ~has_argument THEN 2
             ELSE IF has_reframe \/ has_calm THEN 1
             ELSE 0
        ELSE IF any_in(momentum_words, lower) \/ word_count > 5 THEN 1
        ELSE 0

\* scoring.py:219-258
score_pacing(lower, word_count) ==
    LET has_contractions == any_in(contractions, lower)
        has_casual == any_in(casual_words, lower)
        corporate_phrases == {"i understand", "i appreciate", "thank you for", "i would be happy to"}
        sales_push_count == how_many_in(sales_push_words, lower)
        is_overpushing == sales_push_count >= 4
        has_corporate == any_in(corporate_phrases, lower)
        has_salesy == any_in(salesy_phrases, lower)
        appropriate_length == 5 <= word_count /\ word_count <= 60
        pacing_score ==
            IF /\ has_contractions \/ has_casual
               /\ appropriate_length
               /\ ~has_corporate
               /\ ~has_salesy
               /\ ~is_overpushing
            THEN 2
            ELSE IF /\ has_contractions \/ has_casual \/ appropriate_length
                    /\ ~has_salesy
                    /\ ~is_overpushing
            THEN 1
            ELSE 0
    IN  IF has_salesy \/ is_overpushing THEN 0 ELSE pacing_score

\* scoring.py:278: the word counts of the pieces of
\* text.replace("!", ".").replace("?", ".").split(".") that are not blank.
RECURSIVE sentence_lengths(_)
sentence_lengths(s) ==
    LET ends == { i \in 1..Len(s) : char(s, i) \in {".", "!", "?"} }
        piece(t) == IF len_split(t) > 0 THEN <<len_split(t)>> ELSE << >>
    IN  IF ends = {} THEN piece(s)
        ELSE LET i == CHOOSE e \in ends : \A f \in ends : e <= f
             IN  piece(SubSeq(s, 1, i - 1)) \o sentence_lengths(SubSeq(s, i + 1, Len(s)))

RECURSIVE sum(_)
sum(lengths) == IF lengths = << >> THEN 0 ELSE Head(lengths) + sum(Tail(lengths))

\* scoring.py:280-284: variance < 3 for avg_len = sum / n and
\* variance = sum((l - avg_len)^2) / n, that is n * sum(l^2) - sum(l)^2 < 3 * n^2.
variance_below_3(lengths) ==
    LET n == Len(lengths)
        squares == [i \in 1..n |-> lengths[i] * lengths[i]]
    IN  n * sum(squares) - sum(lengths) * sum(lengths) < 3 * n * n

\* scoring.py:261-307; response_time in whole seconds.
detect_ai_indicators(text, lower, word_count, response_time) ==
    LET generic_phrases == {"i understand", "i appreciate", "i would be happy", "thank you for"}
        generic_count == how_many_in(generic_phrases, lower)
        sentences == sentence_lengths(text)
        has_contractions == any_in(contractions, lower)
        corporate_words == {"certainly", "absolutely", "furthermore", "moreover", "additionally"}
        corporate_count == how_many_in(corporate_words, lower)
    IN  (IF str_count(text, ",") > 6 THEN 2 ELSE 0)
        + (IF str_count(text, ".") > 7 THEN 1 ELSE 0)
        + (IF generic_count >= 2 THEN 2 ELSE 0)
        + (IF Len(sentences) > 3 /\ variance_below_3(sentences) THEN 2 ELSE 0)
        + (IF word_count > 15 /\ ~has_contractions THEN 1 ELSE 0)
        + (IF corporate_count >= 2 THEN 2 ELSE 0)
        + (IF response_time < 1 THEN 1 ELSE 0)
        + (IF word_count > 100 THEN 1 ELSE 0)

\* scoring.py:57-58: min(score, 10), min(ai_score, 10)
\* (variant: no cap)
NoCap(score) == score

min_10(score) == IF score < 10 THEN score ELSE 10

\* scoring.py:15-61
analyze_response(text, response_time) ==
    LET lower == str_lower(text)
        word_count == len_split(text)
        score == score_fan_control(text, lower) + score_emotional_investment(lower)
                     + score_monetization(lower) + score_rebuttal(lower, word_count)
                     + score_pacing(lower, word_count)
        ai_score == detect_ai_indicators(text, lower, word_count, response_time)
    IN  <<min_10(score), min_10(ai_score)>>

\* ------------------------------------------------------------ answers

\* The answers (text, response_time) the interview runs draw from: one that scores
\* nothing and one that scores the maximum.
WEAK_ANSWER == "Please"
NEUTRAL_ANSWER == "This is a neutral answer indeed"
POLISHED_ANSWER ==
    "I understand, yes. I appreciate, yes. Certainly, yes. Absolutely, yes. A, b. C, d. E, f. G h."

\* response_time, in whole seconds (handlers.py:421).
ResponseTimes == {0, 2}
STRONG_ANSWER == "Certainly, absolutely: I want you, I feel special, but no worries I'm here later"

Answers ==
    { [text |-> WEAK_ANSWER, response_time |-> 2],
      [text |-> STRONG_ANSWER, response_time |-> 0] }

\* Results (score, ai_score) of analyze_response the model draws from.
ScoreOutcomes == { analyze_response(a.text, a.response_time) : a \in Answers }

\* ------------------------------------------------------------ state

VARIABLES
    candidates,   \* the candidates table: user_id -> row, for the users that have a row
    responses,    \* the responses table: a bag of rows (the table has no uniqueness constraint)
    outbox,       \* the update handled last and the replies it delivered
    notified,     \* user_id -> number of notify_admin invocations about that user
    pending,      \* user_id -> the await a handler of that user is suspended at, or "none"
    call          \* one call of determine_decision or analyze_response: arguments and result

vars == <<candidates, responses, outbox, notified, pending, call>>

\* database.py:26-41 and handlers.py:155-159: the row start_handler inserts.
NewRow ==
    [ name |-> NULL, question_index |-> -1, score |-> 0, ai_score |-> 0,
      completed |-> 0, decision |-> NULL, feedback |-> NULL,
      has_completed_interview |-> 0, selected_questions |-> NoText ]

NoCall == [ score |-> 0, ai_score |-> 0, result |-> NULL, baseline |-> NULL ]

NoUpdate ==
    [ to |-> 0, update |-> "", text |-> NoText, msgs |-> << >>, raised |-> FALSE,
      unguarded |-> {} ]

\* database.py:18-76 with clear_database: both tables empty.
Init ==
    /\ candidates = << >>
    /\ responses = EmptyBag
    /\ outbox = NoUpdate
    /\ notified = [u \in Users |-> 0]
    /\ pending = [u \in Users |-> "none"]
    /\ call = NoCall

\* ------------------------------------------------------------ SQL

HasRow(c, user_id) == user_id \in DOMAIN c

\* cur.rowcount of UPDATE candidates ... WHERE user_id = ? [AND has_completed_interview = 0]
rowcount(c, user_id, guarded) ==
    IF HasRow(c, user_id) /\ (guarded => c[user_id].has_completed_interview = 0) THEN 1 ELSE 0

\* UPDATE candidates SET ... WHERE user_id = ? [AND has_completed_interview = 0]:
\* new_row is the matching row with the SET clause applied.
Update(c, user_id, guarded, new_row) ==
    IF rowcount(c, user_id, guarded) = 1 THEN [c EXCEPT ![user_id] = new_row] ELSE c

\* SELECT id FROM responses WHERE user_id = ? AND question_number = ? (handlers.py:383-385)
existing_response(r, user_id, question_number) ==
    \E x \in DOMAIN r : x.user_id = user_id /\ x.question_number = question_number

\* INSERT INTO responses (handlers.py:428-431)
InsertResponse(r, user_id, question_number, question_text) ==
    r (+) SetToBag({[ user_id |-> user_id, question_number |-> question_number,
                      question_text |-> question_text ]})

\* DELETE FROM responses WHERE user_id = ? (handlers.py:142)
DeleteResponses(r, user_id) ==
    [ x \in { y \in DOMAIN r : y.user_id # user_id } |-> r[x] ]

\* The rows of one user, and their number.
ResponsesOf(r, user_id) ==
    [ x \in { y \in DOMAIN r : y.user_id = user_id } |-> r[x] ]

CountResponses(r, user_id) == BagCardinality(ResponsesOf(r, user_id))

\* handlers.py:41-55: the decoded list, or None (NoText) when the column is NULL,
\* empty or not JSON.
\* (variant: the text is decoded unchecked)
QuestionsDecodedUnchecked(c, user_id) ==
    IF HasRow(c, user_id) /\ c[user_id].selected_questions # NoText
    THEN json_loads(c[user_id].selected_questions)
    ELSE NoText

get_user_questions(c, user_id) ==
    IF HasRow(c, user_id) /\ c[user_id].selected_questions # NoText
    THEN IF IsJson(c[user_id].selected_questions)
         THEN json_loads(c[user_id].selected_questions)
         ELSE NoText
    ELSE NoText

\* ------------------------------------------------------------ SET clauses

\* handlers.py:147-152
\* (variant: the totals are kept)
ResetKeepsTotals(row) ==
    [row EXCEPT !.question_index = -1, !.completed = 0, !.decision = NULL, !.name = NULL,
                !.feedback = NULL, !.has_completed_interview = 0]

ResetRow(row) ==
    [row EXCEPT !.question_index = -1, !.completed = 0, !.score = 0, !.ai_score = 0,
                !.decision = NULL, !.name = NULL, !.feedback = NULL,
                !.has_completed_interview = 0]

\* handlers.py:210, 258, 417
UnlockRow(row) == [row EXCEPT !.has_completed_interview = 0, !.completed = 0]

\* handlers.py:272-284
StoreName(row, applicant_name, questions_json) ==
    [row EXCEPT !.name = applicant_name, !.question_index = 0, !.score = 0, !.ai_score = 0,
                !.completed = 0, !.decision = NULL, !.feedback = NULL,
                !.has_completed_interview = 0, !.selected_questions = questions_json]

\* handlers.py:336-346
StoreQuestions(row, questions_json) == [row EXCEPT !.selected_questions = questions_json]

\* handlers.py:308-318, 354-364
ToFirstQuestion(row) == [row EXCEPT !.question_index = 1]

\* handlers.py:390-394
\* (variant: the index is left where it is)
SameIndex(row) == row

NextIndex(row) == [row EXCEPT !.question_index = @ + 1]

\* handlers.py:438
ZeroScores(row) == [row EXCEPT !.score = 0, !.ai_score = 0]

\* handlers.py:445-455
\* (variant: question_index is left as it is)
AddScoresOnly(row, score, ai_score) ==
    [row EXCEPT !.score = @ + score, !.ai_score = @ + ai_score]

AddScores(row, score, ai_score) ==
    [row EXCEPT !.score = @ + score, !.ai_score = @ + ai_score, !.question_index = @ + 1]

\* handlers.py:493-499: the score _complete_interview stores and decides on.
\* (variant: no cap)
UncappedScore(final_score) == final_score

CappedScore(final_score) ==
    IF final_score > max_possible_score THEN max_possible_score ELSE final_score

StoreScore(row, final_score) == [row EXCEPT !.score = final_score]

\* handlers.py:510-520
\* (variant: the decision column is left out)
LockWithoutDecision(row, decision, feedback) ==
    [row EXCEPT !.completed = 1, !.has_completed_interview = 1, !.feedback = feedback]

\* (variant: the feedback column is left out)
LockWithoutFeedback(row, decision, feedback) ==
    [row EXCEPT !.completed = 1, !.has_completed_interview = 1, !.decision = decision]

LockRow(row, decision, feedback) ==
    [row EXCEPT !.completed = 1, !.has_completed_interview = 1,
                !.decision = decision, !.feedback = feedback]

\* handlers.py:529
ForceLock(row) == [row EXCEPT !.completed = 1, !.has_completed_interview = 1]

\* ------------------------------------------------------------ replies

MSG_ALREADY_ACCEPTED == "You have already completed the interview and were accepted. ..."
MSG_MOVED_FORWARD == "You have already completed the interview. We appreciate your interest, but we've decided to move forward with other candidates at this time."
MSG_ADMIN_RESTART == "Admin Test Mode: Restarting interview for testing. ..."
MSG_ADMIN_RESTART_IN_PROGRESS == "Admin Test Mode: Restarting interview (previous interview was in progress). ..."
MSG_CONTACT_ADMIN == "You have already completed the interview. Please contact an administrator if you believe this is an error."
MSG_HELLO_ADMIN == "Hello! (Admin Test Mode) ... Please tell us your first name to get started."
MSG_HELLO == "Hello! Please tell us your first name to get started."
MSG_START_FIRST == "Please start the bot first by sending /start"
MSG_USE_START == "You have already completed the interview. Please use /start to see your results."
MSG_ERROR_BEGIN == "Sorry, an error occurred. Please use /start to begin."
MSG_ERROR_TRY_AGAIN == "Sorry, an error occurred. Please try again."
MSG_ERROR_TRY_START == "Sorry, an error occurred. Please try /start again."
MSG_ERROR_START_OVER == "Sorry, an error occurred. Please start over with /start"
MSG_CONTACT_SUPPORT == "Sorry, an error occurred. Please contact support."
ADMIN_NOTE == " Admin Test Mode: You can retake this interview anytime using /start"
INITIAL_MESSAGE == "Initial message"

\* handlers.py:293-299
welcome_message(applicant_name) == "Hello " \o applicant_name \o " ... Just be yourself and answer naturally."

\* handlers.py:115-119
progress_message(current_index, total) ==
    "You already have an interview in progress. You're on question "
        \o ToString(IF current_index > 0 THEN current_index ELSE 1)
        \o " of " \o ToString(total) \o ". Please continue by answering the current question."

\* handlers.py:78-95: what /start answers a locked non-admin.
\* (variant: always the stored feedback)
StoredFeedbackReply(row) == row.feedback

completed_reply(row) ==
    IF row.decision = "APPROVED" THEN MSG_ALREADY_ACCEPTED
    ELSE IF row.feedback # NULL THEN row.feedback
    ELSE MSG_MOVED_FORWARD

\* ------------------------------------------------------------ one invocation

\* A handler invocation in progress: the tables as it has written them, the replies
\* delivered, whether a reply_text call has raised, whether notify_admin ran, the
\* SET clauses of the UPDATE statements it has issued with no condition on
\* has_completed_interview, and the await it stands at when code that writes
\* follows that await ("none": it is done, or only replies follow).
Begin ==
    [ c |-> candidates, r |-> responses, msgs |-> << >>, exc |-> FALSE, notify |-> 0,
      unguarded |-> {}, at |-> "none" ]

\* cur.execute("UPDATE candidates SET <clause> WHERE user_id = ?
\* [AND has_completed_interview = 0]") with conn.commit(), e.g. handlers.py:443-455.
execute(st, user_id, guarded, clause, new_row) ==
    [st EXCEPT !.c = Update(@, user_id, guarded, new_row),
               !.unguarded = IF guarded THEN @ ELSE @ \cup {clause}]

\* await update.message.reply_text(m): delivers m, or raises.
reply_text(st, m, net) ==
    IF st.exc THEN st
    ELSE IF net[Len(st.msgs) + 1] THEN [st EXCEPT !.msgs = Append(@, m)]
    ELSE [st EXCEPT !.exc = TRUE]

\* The code after the await just issued goes on at `label`, unless the await raised.
then_at(st, label) == IF st.exc THEN st ELSE [st EXCEPT !.at = label]

\* ------------------------------------------------------------ /start

\* handlers.py:105-121: the interview a non-admin's /start refuses to restart.
\* (variant: no interview counts as in progress)
NotInProgress(c, user_id) == FALSE

in_progress(c, user_id) ==
    LET user_questions == get_user_questions(c, user_id) IN
    /\ user_questions # NoText
    /\ c[user_id].question_index >= 0
    /\ c[user_id].question_index <= Len(user_questions)

\* handlers.py:142-143
\* (variants: the responses are kept; the responses of every user are deleted)
KeepResponses(r, user_id) == r

DeleteEveryonesResponses(r, user_id) == EmptyBag

delete_old_responses(r, user_id) == DeleteResponses(r, user_id)

\* handlers.py:141-161: delete the responses, reset the row or insert one.
fresh_start(st, user_id) ==
    LET st1 == [st EXCEPT !.r = delete_old_responses(@, user_id)] IN
    IF HasRow(st.c, user_id)
    THEN execute(st1, user_id, FALSE, "ResetRow", ResetRow(st.c[user_id]))
    ELSE [st1 EXCEPT !.c = @ @@ (user_id :> NewRow)]

\* handlers.py:130-176
start_from_130(st, user_id, net) ==
    IF /\ HasRow(st.c, user_id)
       /\ st.c[user_id].has_completed_interview = 1
       /\ ~is_admin(user_id)
    THEN reply_text(st, MSG_CONTACT_ADMIN, net)
    ELSE reply_text(fresh_start(st, user_id),
                    IF is_admin(user_id) THEN MSG_HELLO_ADMIN ELSE MSG_HELLO, net)

\* handlers.py:105-128
start_from_105(st, user_id, net) ==
    LET unlocked == HasRow(st.c, user_id) /\ st.c[user_id].has_completed_interview = 0 IN
    IF unlocked /\ ~is_admin(user_id) /\ in_progress(st.c, user_id)
    THEN reply_text(st, progress_message(st.c[user_id].question_index,
                                         Len(get_user_questions(st.c, user_id))), net)
    ELSE IF unlocked /\ is_admin(user_id)
    THEN then_at(reply_text(st, MSG_ADMIN_RESTART_IN_PROGRESS, net), "start_130")
    ELSE start_from_130(st, user_id, net)

\* handlers.py:58-103
start_begin(st, user_id, net) ==
    LET locked == HasRow(st.c, user_id) /\ st.c[user_id].has_completed_interview = 1 IN
    IF locked /\ ~is_admin(user_id)
    THEN reply_text(st, completed_reply(st.c[user_id]), net)
    ELSE IF locked /\ is_admin(user_id)
    THEN then_at(reply_text(st, MSG_ADMIN_RESTART, net), "start_105")
    ELSE start_from_105(st, user_id, net)

\* ------------------------------------------------------------ text messages

\* handlers.py:472-555
complete_interview(st, user_id, net) ==
    LET is_admin_user == is_admin(user_id) IN
    IF ~HasRow(st.c, user_id) THEN reply_text(st, MSG_CONTACT_SUPPORT, net)
    ELSE
    LET final_check == st.c[user_id] IN
    IF final_check.has_completed_interview = 1 /\ ~is_admin_user
    THEN reply_text(st, MSG_USE_START, net)
    ELSE
    LET final_score == CappedScore(final_check.score)
        st1 == IF final_score # final_check.score
               THEN execute(st, user_id, FALSE, "StoreScore",
                            StoreScore(st.c[user_id], final_score))
               ELSE st
        decision == determine_decision(final_score, final_check.ai_score)
        feedback == generate_feedback(final_score, final_check.ai_score, decision)
        st2 == execute(st1, user_id, ~is_admin_user, "LockRow",
                       LockRow(st1.c[user_id], decision, feedback))
        verify_lock == st2.c[user_id]
        st3 == IF /\ ~is_admin_user
                  /\ \/ verify_lock.has_completed_interview # 1
                     \/ verify_lock.completed # 1
               THEN execute(st2, user_id, FALSE, "ForceLock", ForceLock(st2.c[user_id]))
               ELSE st2
        st4 == reply_text(st3, IF is_admin_user THEN feedback \o ADMIN_NOTE ELSE feedback,
                          net)
    IN  IF st4.exc \/ is_admin_user THEN st4 ELSE [st4 EXCEPT !.notify = 1]

\* handlers.py:382-385: has this question been scored?
\* (variant: the question is never taken as scored)
NeverScored(r, user_id, question_number) == FALSE

already_scored(r, user_id, question_number) == existing_response(r, user_id, question_number)

\* handlers.py:370-469; out is analyze_response(text, response_time).
handle_answer(st, out, index, user_id, net) ==
    LET user_questions == get_user_questions(st.c, user_id)
        previous_question_num == index - 1
        is_admin_user == is_admin(user_id)
    IN
    IF user_questions = NoText THEN reply_text(st, MSG_ERROR_START_OVER, net)
    ELSE IF already_scored(st.r, user_id, previous_question_num)
    THEN IF index < Len(user_questions)
         THEN reply_text(execute(st, user_id, FALSE, "NextIndex", NextIndex(st.c[user_id])),
                         user_questions[index + 1], net)
         ELSE st
    ELSE IF ~HasRow(st.c, user_id) THEN reply_text(st, MSG_ERROR_START_OVER, net)
    ELSE
    LET current_state == st.c[user_id] IN
    IF current_state.has_completed_interview = 1 /\ ~is_admin_user
    THEN reply_text(st, MSG_USE_START, net)
    ELSE
    LET st1 == IF current_state.has_completed_interview = 1 /\ is_admin_user
               THEN execute(st, user_id, FALSE, "UnlockRow", UnlockRow(st.c[user_id]))
               ELSE st
        previous_question_text ==
            IF previous_question_num >= 0 /\ previous_question_num < Len(user_questions)
            THEN user_questions[previous_question_num + 1]
            ELSE INITIAL_MESSAGE
        st2 == [st1 EXCEPT !.r = InsertResponse(@, user_id, previous_question_num,
                                                previous_question_text)]
        st3 == IF current_state.score > max_possible_score
               THEN execute(st2, user_id, FALSE, "ZeroScores", ZeroScores(st2.c[user_id]))
               ELSE st2
        st4 == execute(st3, user_id, ~is_admin_user, "AddScores",
                       AddScores(st3.c[user_id], out[1], out[2]))
    IN  IF rowcount(st3.c, user_id, ~is_admin_user) = 0
        THEN reply_text(st4, MSG_CONTACT_SUPPORT, net)
        ELSE IF index < Len(user_questions)
        THEN reply_text(st4, user_questions[index + 1], net)
        ELSE complete_interview(st4, user_id, net)

\* handlers.py:305-319 and 352-365: the write after the first question is sent.
\* (variant: the write is left out)
NoWriteAfterFirstQuestion(st, user_id) == st

\* (variant: the write is not conditional on the lock)
UnguardedToFirstQuestion(st, user_id) ==
    execute(st, user_id, FALSE, "ToFirstQuestion", ToFirstQuestion(st.c[user_id]))

to_first_question(st, user_id) ==
    execute(st, user_id, ~is_admin(user_id), "ToFirstQuestion",
            ToFirstQuestion(st.c[user_id]))

\* handlers.py:331: `if not user_questions`, the test before questions are selected.
\* (variant: questions are selected anew whatever is stored)
AlwaysSelect(user_questions) == TRUE

no_questions(user_questions) == user_questions = NoText

\* handlers.py:324-350; qs is what get_random_questions returns if called.
handle_welcome(st, qs, user_id, net) ==
    LET is_admin_user == is_admin(user_id)
        stored == get_user_questions(st.c, user_id)
        user_questions == IF no_questions(stored) THEN qs ELSE stored
        st1 == IF no_questions(stored)
               THEN execute(st, user_id, ~is_admin_user, "StoreQuestions",
                            StoreQuestions(st.c[user_id], json_dumps(qs)))
               ELSE st
    IN  then_at(reply_text(st1, user_questions[1], net), "first_question")

\* handlers.py:231-303; qs is what get_random_questions returns.
handle_name_input(st, text, qs, user_id, net) ==
    LET applicant_name == strip(text)
        is_admin_user == is_admin(user_id)
        check_completed == st.c[user_id].has_completed_interview
    IN
    IF NameRejection(applicant_name) # "" THEN reply_text(st, NameRejection(applicant_name), net)
    ELSE IF check_completed = 1 /\ ~is_admin_user THEN reply_text(st, MSG_USE_START, net)
    ELSE
    LET st1 == IF check_completed = 1 /\ is_admin_user
               THEN execute(st, user_id, FALSE, "UnlockRow", UnlockRow(st.c[user_id]))
               ELSE st
        st2 == execute(st1, user_id, ~is_admin_user, "StoreName",
                       StoreName(st1.c[user_id], Join(applicant_name), json_dumps(qs)))
    IN  IF rowcount(st1.c, user_id, ~is_admin_user) = 0
        THEN reply_text(st1, MSG_ERROR_TRY_START, net)
        ELSE then_at(reply_text(reply_text(st2, welcome_message(Join(applicant_name)), net),
                                qs[1], net),
                     "first_question")

\* handlers.py:191-221: the lock guard and the routing.
route_message(st, user_id, text, qs, out, net) ==
    IF ~HasRow(st.c, user_id) THEN reply_text(st, MSG_START_FIRST, net)
    ELSE
    LET row == st.c[user_id]
        index == row.question_index
        is_admin_user == is_admin(user_id)
    IN
    IF row.has_completed_interview = 1 /\ ~is_admin_user
    THEN reply_text(st, MSG_USE_START, net)
    ELSE
    LET st1 == IF row.has_completed_interview = 1 /\ is_admin_user
               THEN execute(st, user_id, FALSE, "UnlockRow", UnlockRow(st.c[user_id]))
               ELSE st
    IN  IF index = -1 THEN handle_name_input(st1, text, qs, user_id, net)
        ELSE IF index = 0 THEN handle_welcome(st1, qs, user_id, net)
        ELSE IF index >= 1 THEN handle_answer(st1, out, index, user_id, net)
        ELSE reply_text(st1, MSG_ERROR_BEGIN, net)

\* handlers.py:223-228: handle_message answers an exception with an apology, which may
\* fail too (start_handler, 177-178, only logs it).
apologize(st, net) ==
    IF st.exc /\ net[Len(st.msgs) + 2]
    THEN [st EXCEPT !.msgs = Append(@, MSG_ERROR_TRY_AGAIN)]
    ELSE st

\* ------------------------------------------------------------ scheduling

\* The update a suspended handler is handling.
UpdateOf(at) == IF at = "first_question" THEN "text" ELSE "/start"

\* The code that follows the await `at`, up to the next such await or the end.
resume(st, user_id, at, net) ==
    IF at = "start_105" THEN start_from_105(st, user_id, net)
    ELSE IF at = "start_130" THEN start_from_130(st, user_id, net)
    ELSE to_first_question(st, user_id)

\* A handler run from st to its end, no other handler in between.
RECURSIVE run(_, _, _)
run(st, user_id, net) ==
    IF st.exc \/ st.at = "none" THEN st
    ELSE run(resume([st EXCEPT !.at = "none"], user_id, st.at, net), user_id, net)

\* What a handler, or a part of one, has done becomes the state: its writes are the
\* tables; the update (with its text, for a text message whose handler starts), the
\* replies and the unconditional UPDATE statements issued are the outbox.
Commit(user_id, update, text, st) ==
    /\ candidates' = st.c
    /\ responses' = st.r
    /\ outbox' = [ to |-> user_id, update |-> update, text |-> text, msgs |-> st.msgs,
                   raised |-> st.exc, unguarded |-> st.unguarded ]
    /\ notified' = [notified EXCEPT ![user_id] = @ + st.notify]
    /\ UNCHANGED call

\* handlers.py:58-178, run to its end.
start_handler(user_id, net) ==
    /\ Commit(user_id, "/start", NoText, run(start_begin(Begin, user_id, net), user_id, net))
    /\ UNCHANGED pending

\* handlers.py:181-228, run to its end.
handle_message(user_id, text, qs, out, net) ==
    /\ Commit(user_id, "text", text,
              apologize(run(route_message(Begin, user_id, text, qs, out, net), user_id, net),
                        net))
    /\ UNCHANGED pending

\* ------------------------------------------------------------ updates, one at a time

\* What handle_message does with an update depends on the sender's row; each of the
\* four cases draws only the inputs its handler reads.
Locked(user_id) ==
    HasRow(candidates, user_id) /\ candidates[user_id].has_completed_interview = 1

Routed(user_id) ==
    HasRow(candidates, user_id) /\ (Locked(user_id) => is_admin(user_id))

AnyText == <<"A", "l">>
AnyQuestions == <<"Q1", "Q2", "Q3", "Q4", "Q5">>
AnyOutcome == <<0, 0>>

\* /start
Start ==
    \E user_id \in Users, net \in Nets : start_handler(user_id, net)

\* A text of a user with no row, or of a locked non-admin: a reply only.
TextUnrouted ==
    \E user_id \in Users, net \in Nets :
        /\ ~Routed(user_id)
        /\ handle_message(user_id, AnyText, AnyQuestions, AnyOutcome, net)

\* A text in AwaitingName: _handle_name_input.
TextName ==
    \E user_id \in Users, text \in Texts, qs \in get_random_questions, net \in Nets :
        /\ Routed(user_id)
        /\ candidates[user_id].question_index = -1
        /\ handle_message(user_id, text, qs, AnyOutcome, net)

\* A text in AwaitingDispatch: _handle_welcome.
TextWelcome ==
    \E user_id \in Users, qs \in get_random_questions, net \in Nets :
        /\ Routed(user_id)
        /\ candidates[user_id].question_index = 0
        /\ handle_message(user_id, AnyText, qs, AnyOutcome, net)

\* A text in Answering(n): _handle_answer.
TextAnswer ==
    \E user_id \in Users, out \in ScoreOutcomes, net \in Nets :
        /\ Routed(user_id)
        /\ candidates[user_id].question_index >= 1
        /\ candidates[user_id].question_index < MaxIndex
        /\ handle_message(user_id, AnyText, AnyQuestions, out, net)

Next == Start \/ TextUnrouted \/ TextName \/ TextWelcome \/ TextAnswer

\* bot.py:158: the Application is built without concurrent_updates, so an update is
\* handled to its end before the next one is taken.
Spec == Init /\ [][Next]_vars

\* ------------------------------------------------------------ one candidate's session

\* A handler reads and writes the rows of the sender only, so the session of a
\* candidate is followed on its own: the updates of the users who are not admins.
Candidates == Users \ ADMIN_IDS

CandidateStart == Start /\ outbox'.to \in Candidates

CandidateTextUnrouted == TextUnrouted /\ outbox'.to \in Candidates

CandidateTextName == TextName /\ outbox'.to \in Candidates

CandidateTextWelcome == TextWelcome /\ outbox'.to \in Candidates

CandidateTextAnswer == TextAnswer /\ outbox'.to \in Candidates

NextCandidate ==
    \/ CandidateStart \/ CandidateTextUnrouted \/ CandidateTextName
    \/ CandidateTextWelcome \/ CandidateTextAnswer

\* handle_message run to its end on a text, every reply_text call of the invocation
\* returning normally.
Delivered(user_id, text, qs, out) ==
    LET net == [k \in 1..3 |-> TRUE] IN
    \E st \in { apologize(run(route_message(Begin, user_id, text, qs, out, net),
                              user_id, net), net) } :
        /\ Commit(user_id, "text", text, st)
        /\ UNCHANGED pending

\* A text of user_id that is a valid name is handled in AwaitingName.
DeliveredName(user_id) ==
    /\ Routed(user_id)
    /\ candidates[user_id].question_index = -1
    /\ \E text \in Texts, qs \in get_random_questions :
           /\ NameRejection(strip(text)) = ""
           /\ Delivered(user_id, text, qs, AnyOutcome)

\* A text of user_id is handled in AwaitingDispatch.
DeliveredWelcome(user_id) ==
    /\ Routed(user_id)
    /\ candidates[user_id].question_index = 0
    /\ \E qs \in get_random_questions : Delivered(user_id, AnyText, qs, AnyOutcome)

\* A text of user_id is handled in Answering(n).
DeliveredAnswer(user_id) ==
    /\ Routed(user_id)
    /\ candidates[user_id].question_index >= 1
    /\ candidates[user_id].question_index < MaxIndex
    /\ \E out \in ScoreOutcomes : Delivered(user_id, AnyText, AnyQuestions, out)

\* bot.py:158-165 with run_polling: every update received is handed to its handler,
\* which runs to its end; a candidate whose session is open goes on writing (a valid
\* name when asked for one) and a send to the candidate does not fail forever.
FairDelivery ==
    \A user_id \in Candidates :
        /\ WF_vars(DeliveredName(user_id))
        /\ WF_vars(DeliveredWelcome(user_id))
        /\ WF_vars(DeliveredAnswer(user_id))

SpecFair == Init /\ [][NextCandidate]_vars /\ FairDelivery

\* ------------------------------------------------------------ handlers interleaved

\* With updates handled concurrently, a handler gives way at an await.  The awaits
\* that code writing to the tables follows are: the admin notices of start_handler
\* (handlers.py:100, 125) and the sends of the first question (300-303, 350).  One
\* handler per user may be suspended there while other handlers run.  A handler reads
\* and writes the rows of the sender only, so these runs are explored with at most
\* MaxCandidates users having a row.

\* /start, up to such an await.
StartSuspends ==
    \E user_id \in Users, net \in Nets :
        LET st == start_begin(Begin, user_id, net) IN
        /\ pending[user_id] = "none"
        /\ st.at # "none"
        /\ Commit(user_id, "/start", NoText, st)
        /\ pending' = [pending EXCEPT ![user_id] = st.at]

\* A text in AwaitingName or AwaitingDispatch, up to such an await.
TextSuspends ==
    \E user_id \in Users, text \in Texts, qs \in get_random_questions, net \in Nets :
        /\ pending[user_id] = "none"
        /\ Routed(user_id)
        /\ candidates[user_id].question_index \in {-1, 0}
        /\ LET st == route_message(Begin, user_id, text, qs, AnyOutcome, net) IN
           /\ st.at # "none"
           /\ Commit(user_id, "text", text, st)
           /\ pending' = [pending EXCEPT ![user_id] = st.at]

\* A suspended handler goes on, up to the next such await or its end.
Resume ==
    \E user_id \in Users, net \in Nets :
        /\ pending[user_id] # "none"
        /\ LET st == resume(Begin, user_id, pending[user_id], net)
               end == IF UpdateOf(pending[user_id]) = "text" THEN apologize(st, net) ELSE st
           IN  /\ Commit(user_id, UpdateOf(pending[user_id]), NoText, end)
               /\ pending' = [pending EXCEPT ![user_id] = end.at]

\* /start to its end, for a user who has a row or may get one.
StartFew ==
    \E user_id \in Users, net \in Nets :
        /\ Cardinality(DOMAIN candidates \cup {user_id}) <= MaxCandidates
        /\ start_handler(user_id, net)

NextInterleaved ==
    \/ StartFew \/ TextUnrouted \/ TextName \/ TextWelcome \/ TextAnswer
    \/ StartSuspends \/ TextSuspends \/ Resume

SpecInterleaved == Init /\ [][NextInterleaved]_vars

\* ------------------------------------------------------------ the decision policy alone

\* determine_decision on every pair of cumulative totals up to the maximum.
InitDecision ==
    /\ candidates = << >>
    /\ responses = EmptyBag
    /\ outbox = NoUpdate
    /\ notified = [u \in Users |-> 0]
    /\ pending = [u \in Users |-> "none"]
    /\ call \in [ score : 0..max_possible_score, ai_score : 0..max_possible_score,
                  result : {NULL}, baseline : {NULL} ]

\* The call, and the same call with ai_score = 0.
Decide ==
    /\ call.result = NULL
    /\ call' = [call EXCEPT !.result = determine_decision(call.score, call.ai_score),
                            !.baseline = determine_decision(call.score, 0)]
    /\ UNCHANGED <<candidates, responses, outbox, notified, pending>>

SpecDecision == InitDecision /\ [][Decide]_vars

\* ------------------------------------------------------------ a damaged table

\* database.py:22-57: init_database opens the file that is there and adds the
\* column selected_questions to a table that lacks it (its rows then hold NULL
\* there, whatever their question_index); a text that is not a JSON list stands for
\* a value the file was given from outside.
TRUNCATED_JSON == <<"[", "Q1", "Q2">>

DamagedRows ==
    { [NewRow EXCEPT !.name = "Al", !.question_index = n, !.score = 10, !.ai_score = 3,
                     !.selected_questions = q] :
        n \in {1, 3}, q \in {NoText, TRUNCATED_JSON} }

\* One user has such a row, in the middle of an interview.
InitDamaged ==
    /\ candidates \in UNION { [{u} -> DamagedRows] : u \in Users }
    /\ responses = EmptyBag
    /\ outbox = NoUpdate
    /\ notified = [u \in Users |-> 0]
    /\ pending = [u \in Users |-> "none"]
    /\ call = NoCall

SpecDamaged == InitDamaged /\ [][Next]_vars

\* ------------------------------------------------------------ a migrated table

\* database.py:53-56: a table written before the column selected_questions existed
\* gets the column added, NULL in every row; clear_database (80-107) keeps the rows
\* when it has already run that day.  A row of such a table in the welcome state.
MigratedRows == { [NewRow EXCEPT !.name = "Bea", !.question_index = 0] }

\* One user has such a row.
InitMigrated ==
    /\ candidates \in UNION { [{u} -> MigratedRows] : u \in Users }
    /\ responses = EmptyBag
    /\ outbox = NoUpdate
    /\ notified = [u \in Users |-> 0]
    /\ pending = [u \in Users |-> "none"]
    /\ call = NoCall

SpecMigrated == InitMigrated /\ [][Next]_vars

\* ------------------------------------------------------------ neutral answers only

\* A text with none of the confidence, needy, submissive, rapport, sales, objection,
\* momentum, contraction or casual markers of the scorers.
neutral(text) ==
    ~any_in(confident_phrases \cup needy_phrases \cup submissive_phrases
            \cup chosen_phrases \cup curiosity_phrases \cup personal_phrases
            \cup connection_phrases \cup completion_phrases
            \cup sales_pressure_words \cup desire_keywords \cup future_ppv_keywords
            \cup subtle_sales \cup pressure_phrases \cup sales_words \cup salesy_phrases
            \cup sales_push_words \cup objection_words \cup momentum_words
            \cup contractions \cup casual_words,
            str_lower(text))

\* The neutral ones of some answers (one of one word, one of six words sent at
\* once, and a needy one), each with what analyze_response returns for it.
NeutralAnswers ==
    UNION { IF neutral(a.text)
            THEN { [ text |-> a.text, out |-> analyze_response(a.text, a.response_time) ] }
            ELSE {} :
            a \in { [text |-> "ok", response_time |-> 2],
                    [text |-> NEUTRAL_ANSWER, response_time |-> 0],
                    [text |-> WEAK_ANSWER, response_time |-> 2] } }

\* A text in Answering(n) that is a neutral answer: _handle_answer.
TextAnswerNeutral ==
    \E user_id \in Users, a \in NeutralAnswers, net \in Nets :
        /\ Routed(user_id)
        /\ candidates[user_id].question_index >= 1
        /\ candidates[user_id].question_index < MaxIndex
        /\ handle_message(user_id, a.text, AnyQuestions, a.out, net)

NextNeutral == Start \/ TextUnrouted \/ TextName \/ TextWelcome \/ TextAnswerNeutral

\* The interviews in which every answer is neutral.
SpecNeutral == Init /\ [][NextNeutral]_vars

\* ------------------------------------------------------------ the scoring alone

\* Pieces of answers: needy, strong, polished and formulaic, neutral, short,
\* apologetic, pushy, over-giving and argumentative, and one of 101 words.
RECURSIVE repeat(_, _)
repeat(s, n) == IF n = 0 THEN "" ELSE s \o repeat(s, n - 1)

Fragments ==
    { WEAK_ANSWER, STRONG_ANSWER, POLISHED_ANSWER, NEUTRAL_ANSWER, "ok",
      "Sorry sorry sorry", "Buy now, pay, tip or order: hurry", "Free pic? But you're wrong",
      repeat("so ", 101) }

ScoringTexts == { a \o " " \o b : a, b \in Fragments }

\* analyze_response is about to be called on a text and a response time.
InitScoring ==
    /\ candidates = << >>
    /\ responses = EmptyBag
    /\ outbox = NoUpdate
    /\ notified = [u \in Users |-> 0]
    /\ pending = [u \in Users |-> "none"]
    /\ call \in [ text : ScoringTexts, response_time : ResponseTimes, done : {FALSE},
                  sub_scores : {<<0, 0, 0, 0, 0>>}, signals : {0}, result : {<<0, 0>>} ]

\* The call, with the five sub-scores and the sum of the weights of the triggered
\* signals it computes on the way.
Analyze ==
    /\ ~call.done
    /\ LET lower == str_lower(call.text)
           word_count == len_split(call.text)
       IN  call' = [call EXCEPT
                       !.done = TRUE,
                       !.sub_scores = << score_fan_control(call.text, lower),
                                         score_emotional_investment(lower),
                                         score_monetization(lower),
                                         score_rebuttal(lower, word_count),
                                         score_pacing(lower, word_count) >>,
                       !.signals = detect_ai_indicators(call.text, lower, word_count,
                                                        call.response_time),
                       !.result = analyze_response(call.text, call.response_time)]
    /\ UNCHANGED <<candidates, responses, outbox, notified, pending>>

SpecScoring == InitScoring /\ [][Analyze]_vars

\* ------------------------------------------------------------ properties

\* C1: in every reachable state every candidate's stored score is within
\* 0..10*QUESTIONS_PER_INTERVIEW.
ScoreWithinBounds ==
    \A u \in DOMAIN candidates :
        candidates[u].score >= 0 /\ candidates[u].score <= max_possible_score

\* A user has given six answers worth 10 each and the stored score is the maximum.
ScoreWasCapped ==
    \E u \in DOMAIN candidates :
        /\ CountResponses(responses, u) > QUESTIONS_PER_INTERVIEW
        /\ candidates[u].ai_score = 18
        /\ candidates[u].score = max_possible_score

\* C2: once a non-admin's row is locked, no step changes that row (score, ai_score,
\* decision, feedback, question_index, the lock itself) or that user's responses.
LockedRowIsFrozen ==
    [][\A u \in Users :
          (u \notin ADMIN_IDS /\ Locked(u)) =>
              /\ u \in DOMAIN candidates'
              /\ candidates'[u] = candidates[u]
              /\ ResponsesOf(responses', u) = ResponsesOf(responses, u)]_vars

\* A locked non-admin has sent /start and has been answered with the stored result.
LockedUserSentStart ==
    \E u \in Users \ ADMIN_IDS :
        /\ Locked(u)
        /\ outbox.to = u
        /\ outbox.update = "/start"
        /\ outbox.msgs = <<completed_reply(candidates[u])>>

\* No two rows of the table r have the same (user_id, question_number).
OneResponsePerQuestion(r) ==
    \A x, y \in DOMAIN r :
        (x.user_id = y.user_id /\ x.question_number = y.question_number) =>
            (x = y /\ r[x] = 1)

\* C3: there is never more than one response per (user_id, question_number), and a
\* step that raises a user's score or ai_score inserts a response of that user for a
\* question_number that had none.
AnswerCountedOnce ==
    [][/\ OneResponsePerQuestion(responses')
       /\ \A u \in DOMAIN candidates :
              (/\ u \in DOMAIN candidates'
               /\ \/ candidates'[u].score > candidates[u].score
                  \/ candidates'[u].ai_score > candidates[u].ai_score)
              => \E x \in DOMAIN responses' :
                     /\ x.user_id = u
                     /\ ~existing_response(responses, u, x.question_number)]_vars

\* A text has been handled at question_index 1 while the responses to the first two
\* questions were stored: the index has moved on and the second question has been
\* sent again, with no new response.
ResentAnswerAbsorbed ==
    \E u \in DOMAIN candidates :
        /\ outbox.to = u
        /\ outbox.update = "text"
        /\ candidates[u].question_index = 2
        /\ CountResponses(responses, u) = 2
        /\ existing_response(responses, u, 0)
        /\ existing_response(responses, u, 1)
        /\ get_user_questions(candidates, u) # NoText
        /\ outbox.msgs = <<get_user_questions(candidates, u)[2]>>

\* C4: a candidate's question_index never decreases from one state to the next,
\* except in a /start of an admin, which sets it back to -1.
IndexNeverDecreases ==
    [][\A u \in DOMAIN candidates :
          /\ u \in DOMAIN candidates'
          /\ candidates'[u].question_index < candidates[u].question_index =>
                 /\ u \in ADMIN_IDS
                 /\ outbox'.to = u
                 /\ outbox'.update = "/start"
                 /\ candidates'[u].question_index = -1]_vars

\* An admin whose interview was completed has sent /start and is back at -1.
AdminRestarted ==
    /\ outbox.to \in ADMIN_IDS
    /\ outbox.update = "/start"
    /\ outbox.msgs = <<MSG_ADMIN_RESTART, MSG_HELLO_ADMIN>>
    /\ candidates[outbox.to].question_index = -1

\* C5: determine_decision returns APPROVED exactly when score >= 17 and
\* ai_score <= 8, otherwise BORDERLINE exactly when score >= 13 and ai_score <= 10,
\* otherwise NOT ELIGIBLE; decide(17,8) = APPROVED, decide(16,8) # APPROVED,
\* decide(13,10) = BORDERLINE, decide(12,10) = NOT ELIGIBLE.
DecisionThresholds ==
    call.result # NULL =>
        LET approved == call.score >= 17 /\ call.ai_score <= 8
            borderline == ~approved /\ call.score >= 13 /\ call.ai_score <= 10
        IN  /\ call.result \in {"APPROVED", "BORDERLINE", "NOT ELIGIBLE"}
            /\ (call.result = "APPROVED") <=> approved
            /\ (call.result = "BORDERLINE") <=> borderline
            /\ (call.result = "NOT ELIGIBLE") <=> (~approved /\ ~borderline)
            /\ (call.score = 17 /\ call.ai_score = 8) => call.result = "APPROVED"
            /\ (call.score = 16 /\ call.ai_score = 8) => call.result # "APPROVED"
            /\ (call.score = 13 /\ call.ai_score = 10) => call.result = "BORDERLINE"
            /\ (call.score = 12 /\ call.ai_score = 10) => call.result = "NOT ELIGIBLE"

\* determine_decision(17, 8) has returned APPROVED.
DecidedAtApprovalThreshold ==
    call.score = 17 /\ call.ai_score = 8 /\ call.result = "APPROVED"

\* C6, as stated: determine_decision(20, 9) returns NOT ELIGIBLE.
HighScoreRejectedAtAiNine ==
    (call.result # NULL /\ call.score = 20 /\ call.ai_score = 9) =>
        call.result = "NOT ELIGIBLE"

\* C6, amended: determine_decision(20, 9) returns BORDERLINE; an ai_score of 9 or 10
\* costs the approval, and only an ai_score above 10 (or a score below 13) rejects.
HighScoreBorderlineAtAiNine ==
    call.result # NULL =>
        /\ (call.score = 20 /\ call.ai_score = 9) => call.result = "BORDERLINE"
        /\ (call.score >= 17 /\ call.ai_score \in {9, 10}) => call.result = "BORDERLINE"
        /\ (call.result = "NOT ELIGIBLE") <=> (call.score < 13 \/ call.ai_score > 10)

\* determine_decision(20, 9) has returned.
DecidedTwentyNine ==
    call.score = 20 /\ call.ai_score = 9 /\ call.result = "BORDERLINE"

LockedImpliesCompleted ==
    \A u \in DOMAIN candidates :
        candidates[u].has_completed_interview = 1 =>
            candidates[u].completed = 1 /\ candidates[u].decision # NULL

\* The admin and the non-admin are both locked.
EveryoneLocked == \A u \in Users : Locked(u)

\* C9: in every reachable state no user has more than QUESTIONS_PER_INTERVIEW
\* responses.
AtMostQResponses ==
    \A u \in Users : CountResponses(responses, u) <= QUESTIONS_PER_INTERVIEW

\* C10: every response has a question_number in 0..QUESTIONS_PER_INTERVIEW-1 and
\* the question_text selected_questions holds at that index, never "Initial message".
ResponsesNameTheirQuestion ==
    \A x \in DOMAIN responses :
        /\ x.question_number \in 0..(QUESTIONS_PER_INTERVIEW - 1)
        /\ x.question_text # INITIAL_MESSAGE
        /\ get_user_questions(candidates, x.user_id) # NoText
        /\ x.question_text = get_user_questions(candidates, x.user_id)[x.question_number + 1]

\* C11, as stated: in every reachable state every candidate's cumulative ai_score
\* lies in 0..10.
AiScoreAtMostTen ==
    \A u \in DOMAIN candidates :
        candidates[u].ai_score >= 0 /\ candidates[u].ai_score <= 10

\* C11, amended: only each answer's ai_score is capped at 10; the cumulative
\* ai_score lies in 0..10*n, n the number of the candidate's responses.
AiScoreWithinAnswers ==
    \A u \in DOMAIN candidates :
        /\ candidates[u].ai_score >= 0
        /\ candidates[u].ai_score <= 10 * CountResponses(responses, u)

\* A non-admin has answered all questions and the cumulative ai_score is above 10.
AiScoreAboveTen ==
    \E u \in Users \ ADMIN_IDS :
        /\ Locked(u)
        /\ CountResponses(responses, u) = QUESTIONS_PER_INTERVIEW
        /\ candidates[u].ai_score > 10

\* C12: selected_questions, wherever a step stores them, are
\* QUESTIONS_PER_INTERVIEW pairwise distinct strings of QUESTION_POOL, and a step
\* changes stored ones only by accepting a name at question_index -1 (after a
\* reset), or by selecting them when none are stored.
QuestionsFixedInSession ==
    [][\A u \in DOMAIN candidates' :
          /\ u \notin DOMAIN candidates => candidates'[u].selected_questions = NoText
          /\ (/\ u \in DOMAIN candidates
              /\ candidates'[u].selected_questions # candidates[u].selected_questions) =>
                 /\ IsSample(get_user_questions(candidates', u))
                 /\ outbox'.to = u
                 /\ outbox'.update = "text"
                 /\ \/ /\ candidates[u].question_index = -1
                       /\ candidates'[u].question_index \in {0, 1}
                       /\ candidates'[u].name # NULL
                    \/ /\ candidates[u].question_index = 0
                       /\ candidates[u].selected_questions = NoText]_vars

\* A candidate has answered two questions: the stored questions are a sample, and
\* the two responses name the first two of them.
SecondAnswerSameQuestions ==
    \E u \in DOMAIN candidates :
        /\ candidates[u].question_index = 3
        /\ get_user_questions(candidates, u) = <<"Q6", "Q5", "Q4", "Q3", "Q2">>
        /\ existing_response(responses, u, 0)
        /\ existing_response(responses, u, 1)
        /\ \A x \in DOMAIN responses :
               x.user_id = u => x.question_text = get_user_questions(candidates, u)[x.question_number + 1]

\* C13: at question_index -1 a text whose stripped form has fewer than 2 or more
\* than 20 characters, or holds "." or a newline, changes no row and no response,
\* and the reply (when the send succeeds) is one of the three re-prompts.
InvalidNameRejected ==
    [][\A u \in DOMAIN candidates :
          LET applicant_name == strip(outbox'.text) IN
          (/\ outbox'.to = u
           /\ outbox'.update = "text"
           /\ outbox'.text # NoText
           /\ candidates[u].question_index = -1
           /\ \/ Len(applicant_name) < 2
              \/ Len(applicant_name) > 20
              \/ \E i \in 1..Len(applicant_name) : applicant_name[i] \in {".", "\n"})
          => /\ candidates' = candidates
             /\ responses' = responses
             /\ ~outbox'.raised =>
                    /\ Len(outbox'.msgs) = 1
                    /\ outbox'.msgs[1] \in {MSG_NAME_SHORT, MSG_NAME_LONG, MSG_NAME_SENTENCE}]_vars

\* The name "A" has been rejected as too short: the sender is still at -1, without
\* name, questions or responses.
NameTooShortRejected ==
    /\ outbox.update = "text"
    /\ outbox.text = <<"A">>
    /\ outbox.msgs = <<MSG_NAME_SHORT>>
    /\ outbox.to \in DOMAIN candidates
    /\ candidates[outbox.to].question_index = -1
    /\ candidates[outbox.to].name = NULL
    /\ candidates[outbox.to].selected_questions = NoText
    /\ CountResponses(responses, outbox.to) = 0

\* C14: at question_index -1 a text with a valid name, answered without a send
\* failing, stores the stripped name and a sample of questions, leaves score and
\* ai_score 0 and question_index 1, inserts no response, and is answered with the
\* welcome text followed by the first selected question.
ValidNameAccepted ==
    [][\A u \in DOMAIN candidates :
          LET applicant_name == strip(outbox'.text) IN
          (/\ outbox'.to = u
           /\ outbox'.update = "text"
           /\ outbox'.text # NoText
           /\ ~outbox'.raised
           /\ candidates[u].question_index = -1
           /\ candidates[u].has_completed_interview = 0
           /\ Len(applicant_name) >= 2
           /\ Len(applicant_name) <= 20
           /\ \A i \in 1..Len(applicant_name) : applicant_name[i] \notin {".", "\n"})
          => /\ candidates'[u].name = Join(applicant_name)
             /\ IsSample(get_user_questions(candidates', u))
             /\ candidates'[u].score = 0
             /\ candidates'[u].ai_score = 0
             /\ candidates'[u].question_index = 1
             /\ responses' = responses
             /\ CountResponses(responses', u) = 0
             /\ outbox'.msgs = << welcome_message(Join(applicant_name)),
                                  get_user_questions(candidates', u)[1] >>]_vars

\* The name "Al" has been accepted: the sender is at question 1 with the name and
\* five questions stored, and has been sent the welcome and the first question.
NameAlAccepted ==
    /\ outbox.update = "text"
    /\ outbox.text = <<"A", "l">>
    /\ outbox.to \in DOMAIN candidates
    /\ candidates[outbox.to].name = "Al"
    /\ candidates[outbox.to].question_index = 1
    /\ Len(get_user_questions(candidates, outbox.to)) = QUESTIONS_PER_INTERVIEW
    /\ CountResponses(responses, outbox.to) = 0
    /\ outbox.msgs = << welcome_message("Al"), get_user_questions(candidates, outbox.to)[1] >>

\* C15: a /start of a non-admin whose row is unlocked with question_index >= 0
\* changes no row and no response, and is answered (when the send succeeds) with
\* the progress "question n of Q", n the question_index, or 1 when that is 0.
StartInProgressRejected ==
    [][\A u \in DOMAIN candidates :
          (/\ outbox'.to = u
           /\ outbox'.update = "/start"
           /\ u \notin ADMIN_IDS
           /\ candidates[u].has_completed_interview = 0
           /\ candidates[u].question_index >= 0)
          => /\ candidates' = candidates
             /\ responses' = responses
             /\ ~outbox'.raised =>
                    outbox'.msgs =
                        << "You already have an interview in progress. You're on question "
                           \o ToString(IF candidates[u].question_index = 0
                                       THEN 1 ELSE candidates[u].question_index)
                           \o " of " \o ToString(QUESTIONS_PER_INTERVIEW)
                           \o ". Please continue by answering the current question." >>]_vars

\* A non-admin at question 3, with two responses, has sent /start and has been told
\* "question 3 of 5".
StartRefusedAtThree ==
    /\ outbox.update = "/start"
    /\ outbox.to \in DOMAIN candidates
    /\ outbox.to \notin ADMIN_IDS
    /\ candidates[outbox.to].question_index = 3
    /\ CountResponses(responses, outbox.to) = 2
    /\ outbox.msgs = <<progress_message(3, 5)>>

\* C16, as stated: every update of a locked non-admin, a text as well as /start,
\* is answered with the stored feedback and changes nothing.
LockedAnsweredWithFeedback ==
    [][\A u \in Users \ ADMIN_IDS :
          (Locked(u) /\ outbox'.to = u /\ ~outbox'.raised)
          => /\ outbox'.msgs = <<candidates[u].feedback>>
             /\ candidates' = candidates
             /\ responses' = responses]_vars

\* C16, amended: an update of a locked non-admin changes nothing; a text is
\* answered with the fixed pointer to /start, and /start with the fixed
\* "already accepted" text when the decision is APPROVED, else with the stored
\* feedback (a fixed "moved forward" text when none is stored).
LockedAnsweredByKind ==
    [][\A u \in Users \ ADMIN_IDS :
          (Locked(u) /\ outbox'.to = u)
          => /\ candidates' = candidates
             /\ responses' = responses
             /\ ~outbox'.raised =>
                    outbox'.msgs =
                        IF outbox'.update = "text" THEN <<MSG_USE_START>>
                        ELSE IF candidates[u].decision = "APPROVED"
                             THEN <<MSG_ALREADY_ACCEPTED>>
                        ELSE IF candidates[u].feedback # NULL THEN <<candidates[u].feedback>>
                        ELSE <<MSG_MOVED_FORWARD>>]_vars

\* A locked non-admin has sent a text and has been pointed to /start.
LockedUserSentText ==
    \E u \in Users \ ADMIN_IDS :
        /\ Locked(u)
        /\ outbox.to = u
        /\ outbox.update = "text"
        /\ outbox.msgs = <<MSG_USE_START>>

VerdictOfTotals ==
    \A u \in DOMAIN candidates :
        candidates[u].has_completed_interview = 1 =>
            /\ candidates[u].decision =
                   determine_decision(candidates[u].score, candidates[u].ai_score)
            /\ candidates[u].feedback =
                   generate_feedback(candidates[u].score, candidates[u].ai_score,
                                     candidates[u].decision)

\* C18: every locked row has decision = determine_decision(score, ai_score) of the
\* stored totals and feedback = generate_feedback of that decision, and the
\* completing step sends that feedback (followed by the admin note, to an admin).
VerdictStoredAndSent ==
    [][/\ VerdictOfTotals'
       /\ \A u \in DOMAIN candidates :
              (/\ outbox'.to = u
               /\ outbox'.update = "text"
               /\ ~outbox'.raised
               /\ candidates'[u].has_completed_interview = 1
               /\ u \in ADMIN_IDS \/ candidates[u].has_completed_interview = 0)
              => outbox'.msgs =
                     << IF u \in ADMIN_IDS THEN candidates'[u].feedback \o ADMIN_NOTE
                        ELSE candidates'[u].feedback >>]_vars

\* A non-admin's fifth answer has locked the row with the totals (30, 9), the
\* decision BORDERLINE and its feedback, which has been sent.
BorderlineVerdictSent ==
    \E u \in Users \ ADMIN_IDS :
        /\ Locked(u)
        /\ outbox.to = u
        /\ outbox.update = "text"
        /\ candidates[u].score = 30
        /\ candidates[u].ai_score = 9
        /\ candidates[u].decision = "BORDERLINE"
        /\ candidates[u].feedback = FB_BORDERLINE
        /\ outbox.msgs = <<FB_BORDERLINE>>

\* C19: notify_admin has run exactly once for every non-admin whose row is locked,
\* and never for anyone else (an admin, or a candidate not locked).
NotifiedOncePerLock ==
    \A u \in Users :
        notified[u] = IF u \notin ADMIN_IDS /\ Locked(u) THEN 1 ELSE 0

\* C20, as stated: a step in which a conditional write for a non-admin affects no
\* row (here the write after the first question, resumed when the row is locked)
\* changes nothing and replies with the generic "already completed" message.
LostRaceAnswered ==
    [][\A u \in Users \ ADMIN_IDS :
          (Locked(u) /\ pending[u] = "first_question" /\ pending'[u] = "none")
          => /\ candidates' = candidates
             /\ responses' = responses
             /\ outbox'.msgs = <<MSG_USE_START>>]_vars

\* C20, amended: such a step changes nothing, and sends no reply at all; the
\* replies that follow a checked rowcount of 0 ("try /start again", "contact
\* support") are sent in no step.
LostRaceSilent ==
    [][/\ \A u \in Users \ ADMIN_IDS :
              (Locked(u) /\ pending[u] = "first_question" /\ pending'[u] = "none")
              => /\ candidates' = candidates
                 /\ responses' = responses
                 /\ outbox'.to = u
                 /\ outbox'.msgs = << >>
       /\ \A i \in 1..Len(outbox'.msgs) :
              outbox'.msgs[i] \notin {MSG_ERROR_TRY_START, MSG_CONTACT_SUPPORT}]_vars

\* A name handler of a non-admin has been resumed after the row was locked: its
\* write has found no row to change, and no reply has been sent.
ResumedAfterLock ==
    \E u \in Users \ ADMIN_IDS :
        /\ Locked(u)
        /\ pending[u] = "none"
        /\ outbox.to = u
        /\ outbox.update = "text"
        /\ outbox.text = NoText
        /\ outbox.msgs = << >>
        /\ ~outbox.raised
        /\ candidates[u].question_index = QUESTIONS_PER_INTERVIEW + 1

\* C21, as stated: every UPDATE of candidates issued while a text message of a
\* non-admin is handled carries the condition has_completed_interview = 0.
EveryWriteGuarded ==
    (outbox.to \notin ADMIN_IDS /\ outbox.update = "text") => outbox.unguarded = {}

\* C21, amended: under any interleaving of handlers no step changes the row of a
\* non-admin that is locked; of the UPDATEs issued while a text message of a
\* non-admin is handled, the duplicate-answer advance carries no condition on the
\* lock (nor do the overflow reset, the score cap and the lock fallback, which no
\* such step issues), and it is issued only when the row is not locked.
LockedRowSparedByWrites ==
    [][\A u \in Users \ ADMIN_IDS :
          /\ Locked(u) => (u \in DOMAIN candidates' /\ candidates'[u] = candidates[u])
          /\ (outbox'.to = u /\ outbox'.update = "text") =>
                 /\ outbox'.unguarded \subseteq {"NextIndex"}
                 /\ outbox'.unguarded # {} =>
                        /\ ~Locked(u)
                        /\ candidates'[u].question_index = candidates[u].question_index + 1]_vars

\* A text of a non-admin has been handled as a duplicate answer: the advance of
\* question_index was issued with no condition on the lock, on a row not locked.
DuplicateAdvanceUnguarded ==
    \E u \in Users \ ADMIN_IDS :
        /\ outbox.to = u
        /\ outbox.update = "text"
        /\ outbox.unguarded = {"NextIndex"}
        /\ u \in DOMAIN candidates
        /\ candidates[u].has_completed_interview = 0
        /\ existing_response(responses, u, candidates[u].question_index - 2)

\* C22: _handle_answer never reads a stored score above 10*QUESTIONS_PER_INTERVIEW:
\* every row a text message can be routed to _handle_answer for (admin or not)
\* holds a score of at most that, and no handler issues the reset of score and
\* ai_score to zero.
OverflowResetUnreachable ==
    /\ "ZeroScores" \notin outbox.unguarded
    /\ \A u \in DOMAIN candidates :
           (Routed(u) /\ candidates[u].question_index >= 1) =>
               candidates[u].score <= max_possible_score

\* An admin's sixth answer has been scored on top of a stored score of the maximum:
\* _handle_answer has added to it without a reset, and the completion has capped it.
ScoredAtMaximumWithoutReset ==
    \E u \in ADMIN_IDS :
        /\ outbox.to = u
        /\ outbox.update = "text"
        /\ outbox.unguarded = {"UnlockRow", "AddScores", "StoreScore", "LockRow"}
        /\ u \in DOMAIN candidates
        /\ candidates[u].score = max_possible_score
        /\ candidates[u].question_index = QUESTIONS_PER_INTERVIEW + 2
        /\ CountResponses(responses, u) = QUESTIONS_PER_INTERVIEW + 1

\* C23: analyze_response returns a score that is the sum of the five sub-scores,
\* each in 0..2, hence in 0..10, and an ai_score in 0..10 that is the smaller of 10
\* and the sum of the weights of the triggered signals (at most 12).
ScoreIsSumOfSubScores ==
    call.done =>
        /\ \A i \in 1..5 : call.sub_scores[i] \in 0..2
        /\ call.result[1] = sum(call.sub_scores)
        /\ call.result[1] \in 0..10
        /\ call.signals \in 0..12
        /\ call.result[2] = IF call.signals > 10 THEN 10 ELSE call.signals
        /\ call.result[2] \in 0..10

\* A polished, formulaic text answered within a second triggers signals of weight
\* 11, and analyze_response has returned an ai_score of 10.
AiScoreCappedAtTen ==
    /\ call.done
    /\ call.response_time = 0
    /\ call.signals = 11
    /\ call.result[2] = 10

\* C24, as stated: a non-admin who has answered all questions with neutral text is
\* locked with the decision NOT ELIGIBLE.
NeutralAnswersRejected ==
    \A u \in Users \ ADMIN_IDS :
        CountResponses(responses, u) = QUESTIONS_PER_INTERVIEW =>
            /\ candidates[u].has_completed_interview = 1
            /\ candidates[u].decision = "NOT ELIGIBLE"

\* C24, amended: a neutral answer of w words scores 1, plus 1 if w > 5, plus 1 if
\* 5 <= w <= 60; the fifth answer of a non-admin locks the row, with the decision
\* BORDERLINE when the total is at least 13 and the cumulative ai_score at most
\* 10, and NOT ELIGIBLE otherwise.
NeutralAnswersDecidedByLength ==
    [][\A u \in Users \ ADMIN_IDS :
          (/\ u \in DOMAIN candidates
           /\ outbox'.to = u
           /\ outbox'.update = "text"
           /\ candidates[u].has_completed_interview = 0
           /\ candidates[u].question_index >= 1)
          => LET word_count == len_split(outbox'.text) IN
             /\ candidates'[u].score =
                    candidates[u].score + 1 + (IF word_count > 5 THEN 1 ELSE 0)
                        + (IF 5 <= word_count /\ word_count <= 60 THEN 1 ELSE 0)
             /\ candidates[u].question_index = QUESTIONS_PER_INTERVIEW =>
                    /\ candidates'[u].has_completed_interview = 1
                    /\ candidates'[u].decision =
                           IF candidates'[u].score >= 13 /\ candidates'[u].ai_score <= 10
                           THEN "BORDERLINE" ELSE "NOT ELIGIBLE"]_vars

\* A non-admin has given five neutral answers of six words: the total is 15 and
\* the row is locked with the decision BORDERLINE.
NeutralAnswersBorderline ==
    \E u \in Users \ ADMIN_IDS :
        /\ Locked(u)
        /\ CountResponses(responses, u) = QUESTIONS_PER_INTERVIEW
        /\ outbox.to = u
        /\ outbox.update = "text"
        /\ candidates[u].score = 15
        /\ candidates[u].decision = "BORDERLINE"

\* C25: what a candidate is sent at completion, and on a later /start, is a fixed
\* text per decision, whatever the score and ai_score: the step that locks a
\* non-admin's row sends the text of the decision, a /start of a locked non-admin
\* is answered with the "already accepted" text or the text of the decision, and
\* the feedback stored with a decision is the same in every row.
FeedbackHidesTotals ==
    [][/\ \A u \in DOMAIN candidates' :
              candidates'[u].has_completed_interview = 1 =>
                  candidates'[u].feedback =
                      CASE candidates'[u].decision = "APPROVED" -> FB_APPROVED
                        [] candidates'[u].decision = "BORDERLINE" -> FB_BORDERLINE
                        [] candidates'[u].decision = "NOT ELIGIBLE" -> FB_NOT_ELIGIBLE
       /\ \A u \in DOMAIN candidates \ ADMIN_IDS :
              (/\ outbox'.to = u
               /\ ~outbox'.raised
               /\ candidates'[u].has_completed_interview = 1)
              => LET decision == candidates'[u].decision
                     sent == CASE decision = "APPROVED" -> FB_APPROVED
                               [] decision = "BORDERLINE" -> FB_BORDERLINE
                               [] decision = "NOT ELIGIBLE" -> FB_NOT_ELIGIBLE
                 IN  outbox'.msgs =
                         IF candidates[u].has_completed_interview = 0 THEN <<sent>>
                         ELSE IF outbox'.update = "text" THEN <<MSG_USE_START>>
                         ELSE IF decision = "APPROVED" THEN <<MSG_ALREADY_ACCEPTED>>
                         ELSE <<sent>>]_vars

\* Two rows are locked with the same decision on different totals, and the
\* non-admin has sent /start and has been answered with the text of that decision.
SameDecisionSameText ==
    \E u \in DOMAIN candidates \ ADMIN_IDS, v \in DOMAIN candidates \cap ADMIN_IDS :
        /\ Locked(u)
        /\ Locked(v)
        /\ candidates[u].decision = "NOT ELIGIBLE"
        /\ candidates[v].decision = "NOT ELIGIBLE"
        /\ candidates[u].score = 0
        /\ candidates[v].score = max_possible_score
        /\ candidates[u].feedback = candidates[v].feedback
        /\ outbox.to = u
        /\ outbox.update = "/start"
        /\ outbox.msgs = <<FB_NOT_ELIGIBLE>>

\* C26: the handling of an update of one user, a handling in which a send fails
\* included, leaves the row and the responses of every other user as they were.
OtherCandidatesUntouched ==
    [][\A b \in Users :
          outbox'.to # b =>
              /\ (b \in DOMAIN candidates') <=> (b \in DOMAIN candidates)
              /\ b \in DOMAIN candidates => candidates'[b] = candidates[b]
              /\ ResponsesOf(responses', b) = ResponsesOf(responses, b)]_vars

\* An admin's /start, whose second reply failed, has reset the admin's row and
\* deleted the admin's responses while the non-admin is at question 3 with two
\* responses.
OthersKeptThroughFailedRestart ==
    \E a \in ADMIN_IDS, b \in Users \ ADMIN_IDS :
        /\ outbox.to = a
        /\ outbox.update = "/start"
        /\ outbox.raised
        /\ outbox.msgs = <<MSG_ADMIN_RESTART>>
        /\ a \in DOMAIN candidates
        /\ b \in DOMAIN candidates
        /\ candidates[a].question_index = -1
        /\ CountResponses(responses, a) = 0
        /\ candidates[b].question_index = 3
        /\ CountResponses(responses, b) = 2

\* C27: no step changes or removes a response of a non-admin, and a step changes
\* the responses of an admin only by adding to them or, in a /start of that
\* admin, by deleting all of them; the responses a /start of a non-admin deletes
\* are none.
ResponsesAppendOnly ==
    [][\A u \in Users :
          \/ ResponsesOf(responses, u) \sqsubseteq ResponsesOf(responses', u)
          \/ /\ u \in ADMIN_IDS
             /\ outbox'.to = u
             /\ outbox'.update = "/start"
             /\ CountResponses(responses', u) = 0]_vars

\* A non-admin with three responses has sent /start, and the three are still there.
ResponsesKeptOnStart ==
    \E u \in DOMAIN candidates \ ADMIN_IDS :
        /\ outbox.to = u
        /\ outbox.update = "/start"
        /\ candidates[u].has_completed_interview = 0
        /\ CountResponses(responses, u) = 3
        /\ \A n \in 0..2 : existing_response(responses, u, n)

\* C28: a text at question_index >= 1 of a user whose selected_questions are
\* missing or cannot be decoded inserts no response, leaves score, ai_score,
\* question_index and selected_questions as they were and is answered (when the
\* send succeeds) with "start over with /start"; a text of a user with no row
\* creates no row and is answered with "send /start".
CorruptionAborts ==
    [][\A u \in Users :
          (outbox'.to = u /\ outbox'.update = "text") =>
              /\ u \notin DOMAIN candidates =>
                     /\ candidates' = candidates
                     /\ responses' = responses
                     /\ ~outbox'.raised => outbox'.msgs = <<MSG_START_FIRST>>
              /\ (/\ u \in DOMAIN candidates
                  /\ Routed(u)
                  /\ candidates[u].question_index >= 1
                  /\ \/ candidates[u].selected_questions = NoText
                     \/ ~IsJson(candidates[u].selected_questions))
                 => /\ responses' = responses
                    /\ candidates'[u].score = candidates[u].score
                    /\ candidates'[u].ai_score = candidates[u].ai_score
                    /\ candidates'[u].question_index = candidates[u].question_index
                    /\ candidates'[u].selected_questions = candidates[u].selected_questions
                    /\ ~outbox'.raised => outbox'.msgs = <<MSG_ERROR_START_OVER>>]_vars

\* A user at question 3 whose stored questions cannot be decoded has sent a text and
\* has been told to start over; the row is as it was and there is no response.
UndecodableQuestionsAborted ==
    \E u \in DOMAIN candidates :
        /\ outbox.to = u
        /\ outbox.update = "text"
        /\ outbox.msgs = <<MSG_ERROR_START_OVER>>
        /\ candidates[u].selected_questions = TRUNCATED_JSON
        /\ candidates[u].question_index = 3
        /\ candidates[u].score = 10
        /\ CountResponses(responses, u) = 0

\* C29: with handlers of one candidate interleaved at their awaits, a step inserts
\* at most one response of a user, and only for a question_number that had none,
\* and it raises the user's score or ai_score only together with such an insert,
\* by at most 10 each.
NoAnswerCountedTwice ==
    [][\A u \in DOMAIN candidates :
          u \in DOMAIN candidates' =>
              LET added == { x \in DOMAIN responses' :
                               /\ x.user_id = u
                               /\ \/ x \notin DOMAIN responses
                                  \/ responses'[x] > responses[x] }
              IN  /\ Cardinality(added) <= 1
                  /\ \A x \in added :
                         /\ responses'[x] = 1
                         /\ ~existing_response(responses, u, x.question_number)
                  /\ (\/ candidates'[u].score > candidates[u].score
                      \/ candidates'[u].ai_score > candidates[u].ai_score)
                     => /\ Cardinality(added) = 1
                        /\ candidates'[u].score <= candidates[u].score + 10
                        /\ candidates'[u].ai_score <= candidates[u].ai_score + 10]_vars

\* A name handler resumed after three answers had set question_index back to 1;
\* two more texts have been absorbed as duplicates: the index is 3 again, and the
\* three responses and the totals of three answers are as they were.
DuplicatesLeftTotalsAlone ==
    \E u \in DOMAIN candidates \ ADMIN_IDS :
        /\ pending[u] = "none"
        /\ outbox.to = u
        /\ outbox.update = "text"
        /\ outbox.unguarded = {"NextIndex"}
        /\ candidates[u].question_index = 3
        /\ CountResponses(responses, u) = 3
        /\ \A n \in 0..2 : existing_response(responses, u, n)
        /\ candidates[u].score = 30
        /\ candidates[u].ai_score = 9

\* C30: a text handled at question_index n in 1..QUESTIONS_PER_INTERVIEW on a row
\* not locked, with no response for question_number n-1, inserts exactly one
\* response (question_number n-1, the n-th selected question), adds the score and
\* the ai_score of the answer to the totals and sets question_index to n+1; then
\* for n < QUESTIONS_PER_INTERVIEW the next selected question is sent and the row
\* stays unlocked, and for n = QUESTIONS_PER_INTERVIEW the row is locked with the
\* decision of the totals and the feedback is sent (a reply is missing only when
\* its send fails).
AnswerStep ==
    [][\A u \in DOMAIN candidates :
          LET n == candidates[u].question_index
              selected_questions == get_user_questions(candidates, u)
          IN  (/\ outbox'.to = u
               /\ outbox'.update = "text"
               /\ n >= 1
               /\ n <= QUESTIONS_PER_INTERVIEW
               /\ Len(selected_questions) = QUESTIONS_PER_INTERVIEW
               /\ candidates[u].has_completed_interview = 0
               /\ ~existing_response(responses, u, n - 1))
              => /\ responses' =
                        responses (+) SetToBag({[ user_id |-> u, question_number |-> n - 1,
                                                  question_text |-> selected_questions[n] ]})
                 /\ \E out \in ScoreOutcomes :
                        /\ candidates'[u].score = candidates[u].score + out[1]
                        /\ candidates'[u].ai_score = candidates[u].ai_score + out[2]
                 /\ candidates'[u].question_index = n + 1
                 /\ n < QUESTIONS_PER_INTERVIEW =>
                        /\ candidates'[u].has_completed_interview = 0
                        /\ ~outbox'.raised => outbox'.msgs = <<selected_questions[n + 1]>>
                 /\ n = QUESTIONS_PER_INTERVIEW =>
                        /\ candidates'[u].has_completed_interview = 1
                        /\ candidates'[u].decision \in {"APPROVED", "BORDERLINE", "NOT ELIGIBLE"}
                        /\ ~outbox'.raised =>
                               outbox'.msgs =
                                   << IF u \in ADMIN_IDS
                                      THEN candidates'[u].feedback \o ADMIN_NOTE
                                      ELSE candidates'[u].feedback >>]_vars

\* A candidate's second answer has been handled: it is stored as the response to
\* question_number 1 with the second selected question, the totals are those of
\* a weak and a strong answer, the index is 3 and the third question has been sent.
SecondAnswerStored ==
    \E u \in DOMAIN candidates \ ADMIN_IDS :
        /\ outbox.to = u
        /\ outbox.update = "text"
        /\ get_user_questions(candidates, u) = <<"Q1", "Q2", "Q3", "Q4", "Q5">>
        /\ outbox.msgs = <<"Q3">>
        /\ candidates[u].question_index = 3
        /\ candidates[u].score = 10
        /\ candidates[u].ai_score = 3
        /\ ResponsesOf(responses, u) =
               SetToBag({ [user_id |-> u, question_number |-> 0, question_text |-> "Q1"],
                          [user_id |-> u, question_number |-> 1, question_text |-> "Q2"] })

\* A text of user u is handled by _handle_answer at question_index n while the
\* response to question n - 1 is stored: the step from the state before it.
DuplicateAt(u, n) ==
    /\ Routed(u)
    /\ candidates[u].question_index = n
    /\ get_user_questions(candidates, u) # NoText
    /\ existing_response(responses, u, n - 1)
    /\ outbox'.to = u
    /\ outbox'.update = "text"
    /\ outbox'.text = AnyText

\* What every duplicate leaves alone: the responses and the totals.
DuplicateNotScored(u) ==
    /\ responses' = responses
    /\ candidates'[u].score = candidates[u].score
    /\ candidates'[u].ai_score = candidates[u].ai_score

\* C31 (as stated): a duplicate at any n in 1..Q is not scored and not inserted, and
\* advances question_index by exactly one; below Q the next prompt is the one reply.
DuplicateAlwaysAdvances ==
    [][\A u \in Users, n \in 1..QUESTIONS_PER_INTERVIEW :
          DuplicateAt(u, n) =>
              /\ DuplicateNotScored(u)
              /\ candidates'[u].question_index = n + 1
              /\ (n < QUESTIONS_PER_INTERVIEW /\ ~outbox'.raised) =>
                     outbox'.msgs = <<get_user_questions(candidates, u)[n + 1]>>]_vars

\* C31: a text handled in Answering(n) while a response with question_number n - 1
\* exists is not scored and not inserted; for n in 1..Q-1 it advances question_index
\* by exactly one and the next prompt is the one reply (if the send does not fail);
\* for n = Q it leaves question_index at Q and nothing is sent.
DuplicateStep ==
    [][\A u \in Users, n \in 1..QUESTIONS_PER_INTERVIEW :
          DuplicateAt(u, n) =>
              /\ DuplicateNotScored(u)
              /\ IF n < QUESTIONS_PER_INTERVIEW
                 THEN /\ candidates'[u].question_index = n + 1
                      /\ ~outbox'.raised =>
                             outbox'.msgs = <<get_user_questions(candidates, u)[n + 1]>>
                 ELSE /\ candidates'[u].question_index = n
                      /\ outbox'.msgs = << >>
                      /\ ~outbox'.raised]_vars

\* A text has been handled at question_index Q with the response to the last question
\* stored: the index is still Q, the row is not locked and nothing was sent.
DuplicateAtLastQuestionSilent ==
    \E u \in DOMAIN candidates :
        /\ outbox.to = u
        /\ outbox.update = "text"
        /\ outbox.text = AnyText
        /\ outbox.msgs = << >>
        /\ ~outbox.raised
        /\ candidates[u].question_index = QUESTIONS_PER_INTERVIEW
        /\ candidates[u].has_completed_interview = 0
        /\ existing_response(responses, u, QUESTIONS_PER_INTERVIEW - 1)

\* C32: a text handled with question_index = 0 inserts no response and leaves score,
\* ai_score, name and decision unchanged; it keeps a stored selection as it is and
\* stores a fresh sample only if none is stored; it sends selected_questions[0] as
\* its one reply and then sets question_index to 1 (if that send fails, the index
\* stays 0).
WelcomeStep ==
    [][\A u \in Users :
          (/\ Routed(u)
           /\ candidates[u].question_index = 0
           /\ outbox'.to = u
           /\ outbox'.update = "text"
           /\ outbox'.text = AnyText)
          => LET stored == get_user_questions(candidates, u)
                 user_questions == get_user_questions(candidates', u)
             IN  /\ responses' = responses
                 /\ candidates'[u].score = candidates[u].score
                 /\ candidates'[u].ai_score = candidates[u].ai_score
                 /\ candidates'[u].name = candidates[u].name
                 /\ candidates'[u].decision = candidates[u].decision
                 /\ IF stored # NoText
                    THEN candidates'[u].selected_questions = candidates[u].selected_questions
                    ELSE user_questions \in get_random_questions
                 /\ IF outbox'.raised
                    THEN candidates'[u].question_index = 0
                    ELSE /\ outbox'.msgs = <<user_questions[1]>>
                         /\ candidates'[u].question_index = 1]_vars

\* A user whose row held no selection in the welcome state has sent a text: a
\* selection is stored, its first question was the reply and question_index is 1,
\* with the name as it was and nothing scored.
WelcomeSelectedQuestions ==
    \E u \in DOMAIN candidates :
        /\ outbox.to = u
        /\ outbox.update = "text"
        /\ candidates[u].name = "Bea"
        /\ candidates[u].question_index = 1
        /\ candidates[u].score = 0
        /\ CountResponses(responses, u) = 0
        /\ get_user_questions(candidates, u) \in get_random_questions
        /\ outbox.msgs = <<get_user_questions(candidates, u)[1]>>

\* C33: for a non-admin, a valid name handled with its replies sent leads from
\* AwaitingName to Answering(1), each answer handled below question Q stores one
\* response and moves one question on, the answer handled at question Q locks the
\* session, and a locked session has completed = 1, a decision and exactly Q
\* responses; so under fair delivery of the candidate's messages every started
\* session is eventually locked.
StartedSessionGetsLocked ==
    /\ [][\A u \in Candidates :
            (/\ Routed(u)
             /\ outbox'.to = u
             /\ outbox'.update = "text"
             /\ ~outbox'.raised)
            => \/ /\ candidates[u].question_index = -1
                  /\ candidates'[u].question_index \in {-1, 1}
                  /\ candidates'[u].question_index = -1
                        <=> NameRejection(strip(outbox'.text)) # ""
               \/ /\ candidates[u].question_index \in 0..(QUESTIONS_PER_INTERVIEW - 1)
                  /\ candidates'[u].question_index = candidates[u].question_index + 1
                  /\ CountResponses(responses', u) = candidates[u].question_index
                  /\ ~Locked(u)'
               \/ /\ candidates[u].question_index = QUESTIONS_PER_INTERVIEW
                  /\ Locked(u)']_vars
    /\ [](\A u \in Candidates :
            Locked(u) => /\ candidates[u].completed = 1
                         /\ candidates[u].decision # NULL
                         /\ CountResponses(responses, u) = QUESTIONS_PER_INTERVIEW)
    /\ \A u \in Candidates : HasRow(candidates, u) ~> Locked(u)

\* A non-admin's text has been handled with its reply sent and the session is locked,
\* with a decision, five responses and the admins notified.
CandidateLockedAfterLastAnswer ==
    \E u \in DOMAIN candidates \ ADMIN_IDS :
        /\ outbox.to = u
        /\ outbox.update = "text"
        /\ ~outbox.raised
        /\ Len(outbox.msgs) = 1
        /\ Locked(u)
        /\ candidates[u].completed = 1
        /\ candidates[u].decision # NULL
        /\ CountResponses(responses, u) = QUESTIONS_PER_INTERVIEW
        /\ notified[u] = 1

\* The question_numbers of the responses of user u in the table r.
QuestionNumbers(r, u) == { x.question_number : x \in DOMAIN ResponsesOf(r, u) }

\* C34: in every reachable state a non-admin with question_index = n >= 1 has
\* exactly one response for each question_number in 0..n-2 and no other (a locked
\* one exactly Q, numbered 0..Q-1); and the stored totals are the sums of what
\* analyze_response returned for those rows: a step that adds a row adds one
\* outcome to the totals, and no other step changes them.
ResponsesMatchIndex ==
    /\ [](\A u \in DOMAIN candidates \ ADMIN_IDS :
            /\ candidates[u].question_index >= 1 =>
                   /\ QuestionNumbers(responses, u) = 0..(candidates[u].question_index - 2)
                   /\ CountResponses(responses, u) = candidates[u].question_index - 1
            /\ candidates[u].question_index < 1 =>
                   /\ CountResponses(responses, u) = 0
                   /\ candidates[u].score = 0
                   /\ candidates[u].ai_score = 0
            /\ Locked(u) =>
                   /\ QuestionNumbers(responses, u) = 0..(QUESTIONS_PER_INTERVIEW - 1)
                   /\ CountResponses(responses, u) = QUESTIONS_PER_INTERVIEW)
    /\ [][\A u \in DOMAIN candidates \ ADMIN_IDS :
            /\ u \in DOMAIN candidates'
            /\ IF CountResponses(responses', u) = CountResponses(responses, u) + 1
               THEN \E out \in ScoreOutcomes :
                        /\ candidates'[u].score = candidates[u].score + out[1]
                        /\ candidates'[u].ai_score = candidates[u].ai_score + out[2]
               ELSE /\ CountResponses(responses', u) = CountResponses(responses, u)
                    /\ candidates'[u].score = candidates[u].score
                    /\ candidates'[u].ai_score = candidates[u].ai_score]_vars

\* A non-admin is locked with the responses numbered 0..4 and the totals of two
\* strong and three weak answers.
LockedWithNumberedResponses ==
    \E u \in DOMAIN candidates \ ADMIN_IDS :
        /\ Locked(u)
        /\ candidates[u].question_index = QUESTIONS_PER_INTERVIEW + 1
        /\ QuestionNumbers(responses, u) = 0..4
        /\ CountResponses(responses, u) = 5
        /\ candidates[u].score = 20
        /\ candidates[u].ai_score = 6

\* C35: in every reachable state every non-admin's question_index is in -1..Q+1,
\* has_completed_interview = 1 holds exactly when question_index = Q+1, completed
\* equals has_completed_interview, and decision and feedback are non-null exactly
\* when the row is locked.
LockedExactlyPastLastQuestion ==
    \A u \in DOMAIN candidates \ ADMIN_IDS :
        LET row == candidates[u] IN
        /\ row.question_index \in -1..(QUESTIONS_PER_INTERVIEW + 1)
        /\ row.has_completed_interview \in {0, 1}
        /\ row.has_completed_interview = 1 <=> row.question_index = QUESTIONS_PER_INTERVIEW + 1
        /\ row.completed = row.has_completed_interview
        /\ row.decision # NULL <=> row.has_completed_interview = 1
        /\ row.feedback # NULL <=> row.has_completed_interview = 1

\* A non-admin's last answer has been handled and the send of the feedback failed:
\* the row is locked at question_index Q+1 with completed, decision and feedback set.
LockedThoughFeedbackNotSent ==
    \E u \in DOMAIN candidates \ ADMIN_IDS :
        /\ outbox.to = u
        /\ outbox.update = "text"
        /\ outbox.raised
        /\ candidates[u].question_index = QUESTIONS_PER_INTERVIEW + 1
        /\ candidates[u].has_completed_interview = 1
        /\ candidates[u].completed = 1
        /\ candidates[u].decision = "NOT ELIGIBLE"
        /\ candidates[u].feedback = FB_NOT_ELIGIBLE

\* The texts generate_feedback returns, as sent to a candidate and to an admin.
FeedbackTexts ==
    LET texts == {FB_APPROVED, FB_BORDERLINE, FB_NOT_ELIGIBLE} IN
    texts \cup { feedback \o ADMIN_NOTE : feedback \in texts }

\* C36: a question sent to a user is the selected question following the one sent
\* before it: it is selected_questions[k] exactly when the step moves the user from
\* question_index k (from AwaitingName or AwaitingDispatch for k = 0) to k + 1, and
\* for k >= 1 the responses to questions 0..k-1 are then recorded; a feedback is
\* sent only with the Q responses recorded and the lock written.
PromptsInOrder ==
    [][\A i \in 1..Len(outbox'.msgs) :
          LET u == outbox'.to
              m == outbox'.msgs[i]
              selected_questions == get_user_questions(candidates', u)
          IN  /\ m \in QUESTION_POOL =>
                     /\ selected_questions # NoText
                     /\ \E k \in 0..(QUESTIONS_PER_INTERVIEW - 1) :
                            /\ m = selected_questions[k + 1]
                            /\ candidates'[u].question_index = k + 1
                            /\ k = 0 => candidates[u].question_index \in {-1, 0}
                            /\ k >= 1 => candidates[u].question_index = k
                            /\ \A j \in 0..(k - 1) : existing_response(responses', u, j)
              /\ m \in FeedbackTexts =>
                     /\ candidates'[u].has_completed_interview = 1
                     /\ candidates'[u].completed = 1
                     /\ m \in {candidates'[u].feedback, candidates'[u].feedback \o ADMIN_NOTE}
                     /\ \A j \in 0..(QUESTIONS_PER_INTERVIEW - 1) :
                            existing_response(responses', u, j)]_vars

\* A user with the second sample selected has been sent its fourth question, with
\* the responses to the first three recorded under their questions.
FourthQuestionSent ==
    \E u \in DOMAIN candidates :
        /\ outbox.to = u
        /\ outbox.update = "text"
        /\ get_user_questions(candidates, u) = <<"Q6", "Q5", "Q4", "Q3", "Q2">>
        /\ outbox.msgs = <<"Q3">>
        /\ candidates[u].question_index = 4
        /\ ResponsesOf(responses, u) =
               SetToBag({ [user_id |-> u, question_number |-> 0, question_text |-> "Q6"],
                          [user_id |-> u, question_number |-> 1, question_text |-> "Q5"],
                          [user_id |-> u, question_number |-> 2, question_text |-> "Q4"] })

\* C37: no reachable state has an unlocked row at question_index n >= 1 with a
\* selection stored and the response to question n - 1 already stored; and a text
\* handled on an unlocked row at question_index >= 1 with a selection stored
\* raises question_index or locks the row, and is answered (unless the send fails).
NoStuckSession ==
    /\ [](\A u \in DOMAIN candidates :
            (/\ candidates[u].has_completed_interview = 0
             /\ candidates[u].question_index >= 1
             /\ get_user_questions(candidates, u) # NoText)
            => ~existing_response(responses, u, candidates[u].question_index - 1))
    /\ [][\A u \in DOMAIN candidates :
            (/\ candidates[u].has_completed_interview = 0
             /\ candidates[u].question_index >= 1
             /\ get_user_questions(candidates, u) # NoText
             /\ outbox'.to = u
             /\ outbox'.update = "text")
            => /\ \/ candidates'[u].question_index > candidates[u].question_index
                  \/ Locked(u)'
               /\ \/ outbox'.msgs # << >>
                  \/ outbox'.raised]_vars

\* A text has been handled at question_index 4 of an unlocked row: the index is 5,
\* the row is still unlocked and the last question has been sent.
LastQuestionSent ==
    \E u \in DOMAIN candidates :
        /\ outbox.to = u
        /\ outbox.update = "text"
        /\ ~outbox.raised
        /\ candidates[u].has_completed_interview = 0
        /\ candidates[u].question_index = QUESTIONS_PER_INTERVIEW
        /\ CountResponses(responses, u) = QUESTIONS_PER_INTERVIEW - 1
        /\ get_user_questions(candidates, u) # NoText
        /\ outbox.msgs = <<get_user_questions(candidates, u)[QUESTIONS_PER_INTERVIEW]>>

====
